---------------------------- MODULE Spec2Model ----------------------------
(***************************************************************************)
(* A model of the conversational search engine of the location-based       *)
(* service chatbot: the dialogue state machine of main.py                  *)
(* (LocationBasedChatbot), the location resolver of config.py and          *)
(* osm_integration.py, and the provider search of main.py and              *)
(* osm_integration.py.                                                     *)
(*                                                                         *)
(* Representation.  A Python str is a sequence of one-character strings,   *)
(* so that lower(), strip(), title(), `in' and re.findall are computed and *)
(* not assumed.  A coordinate is an integer number of 1e-4 degrees (every  *)
(* coordinate of the source tables has four decimals).  A distance is an   *)
(* integer number of metres.  A price is an integer.  Python's None is the *)
(* value None.                                                             *)
(*                                                                         *)
(* The two external collaborators (the Nominatim geocoder and the Overpass *)
(* map server) are modelled as fixed data sets whose every query may also  *)
(* fail: NominatimData, OsmNodeTable.                                      *)
(***************************************************************************)
EXTENDS Integers, Sequences, FiniteSets, TLC

\* Python's None, and an Optional value x as the one-element sequence <<x>>.  A
\* budget range is kept as the pair itself: <<>> is None, <<lo, hi>> the tuple.
None == <<>>
Some(x) == <<x>>
Get(o) == o[1]

\* How many nodes of OsmNodeTable the map server holds.
MaxOsmNodes == 7

\* The count of processed messages saturates here.
TurnCap == 5

\* How many WhatsApp messages are followed.
MaxWebhookMessages == 4

---------------------------------------------------------------------------
(* Python str operations *)

LowerCase == <<"a","b","c","d","e","f","g","h","i","j","k","l","m",
               "n","o","p","q","r","s","t","u","v","w","x","y","z">>
UpperCase == <<"A","B","C","D","E","F","G","H","I","J","K","L","M",
               "N","O","P","Q","R","S","T","U","V","W","X","Y","Z">>
Digits == <<"0","1","2","3","4","5","6","7","8","9">>

IndexIn(c, alphabet) ==
  IF \E i \in 1..Len(alphabet) : alphabet[i] = c
  THEN CHOOSE i \in 1..Len(alphabet) : alphabet[i] = c
  ELSE 0

IsUpper(c) == IndexIn(c, UpperCase) # 0
IsLower(c) == IndexIn(c, LowerCase) # 0
IsCased(c) == IsUpper(c) \/ IsLower(c)
IsDigit(c) == IndexIn(c, Digits) # 0
IsSpace(c) == c \in {" ", "\t", "\n"}

LowerChar(c) == IF IsUpper(c) THEN LowerCase[IndexIn(c, UpperCase)] ELSE c
UpperChar(c) == IF IsLower(c) THEN UpperCase[IndexIn(c, LowerCase)] ELSE c

\* str.lower()
Lower(s) == [i \in 1..Len(s) |-> LowerChar(s[i])]

\* str.strip()
Strip(s) ==
  LET keep == {i \in 1..Len(s) : ~IsSpace(s[i])}
  IN  IF keep = {} THEN <<>>
      ELSE LET first == CHOOSE i \in keep : \A j \in keep : i <= j
               last  == CHOOSE i \in keep : \A j \in keep : j <= i
           IN  SubSeq(s, first, last)

\* str.title(): a cased character is upper-cased after an uncased one (or at
\* the start) and lower-cased after a cased one.
Title(s) ==
  [i \in 1..Len(s) |->
     IF i = 1 \/ ~IsCased(s[i-1]) THEN UpperChar(s[i]) ELSE LowerChar(s[i])]

\* `sub in s'
Contains(s, sub) ==
  \E i \in 0..(Len(s) - Len(sub)) : SubSeq(s, i + 1, i + Len(sub)) = sub

\* s.replace(old, new) for a one-character old
ReplaceChar(s, old, new) == [i \in 1..Len(s) |-> IF s[i] = old THEN new ELSE s[i]]

\* s.replace(" ", "")
RemoveSpaces(s) == SelectSeq(s, LAMBDA c : c # " ")

\* s.split(): the maximal runs of non-space characters
RECURSIVE SplitFrom(_, _)
SplitFrom(s, i) ==
  IF i > Len(s) THEN <<>>
  ELSE IF IsSpace(s[i]) THEN SplitFrom(s, i + 1)
  ELSE LET stop == IF \E j \in i..Len(s) : IsSpace(s[j])
                   THEN CHOOSE j \in i..Len(s) :
                          IsSpace(s[j]) /\ \A k \in i..(j-1) : ~IsSpace(s[k])
                   ELSE Len(s) + 1
       IN  <<SubSeq(s, i, stop - 1)>> \o SplitFrom(s, stop)

Split(s) == SplitFrom(s, 1)

\* Characters for which c.isdigit() holds and which are no decimal digits:
\* int() and the pattern \d do not take them
OtherDigits == <<"²">>

\* s.isdigit()
StrIsDigit(s) == Len(s) > 0 /\ \A i \in 1..Len(s) : IsDigit(s[i]) \/ IndexIn(s[i], OtherDigits) # 0

\* int(s) raises ValueError, for a string with s.isdigit()
IntRaises(s) == \E i \in 1..Len(s) : ~IsDigit(s[i])

\* int(s) for a string of decimal digits
RECURSIVE StrToInt(_)
StrToInt(s) ==
  IF Len(s) = 0 THEN 0
  ELSE 10 * StrToInt(SubSeq(s, 1, Len(s) - 1)) + (IndexIn(s[Len(s)], Digits) - 1)

\* str(n) for n >= 0
RECURSIVE IntToStr(_)
IntToStr(n) ==
  IF n < 10 THEN <<Digits[n + 1]>>
  ELSE IntToStr(n \div 10) \o <<Digits[(n % 10) + 1]>>

\* re.findall(r'\d+', s): the maximal runs of digits, left to right
RECURSIVE DigitRunsFrom(_, _)
DigitRunsFrom(s, i) ==
  IF i > Len(s) THEN <<>>
  ELSE IF ~IsDigit(s[i]) THEN DigitRunsFrom(s, i + 1)
  ELSE LET stop == IF \E j \in i..Len(s) : ~IsDigit(s[j])
                   THEN CHOOSE j \in i..Len(s) :
                          ~IsDigit(s[j]) /\ \A k \in i..(j-1) : IsDigit(s[k])
                   ELSE Len(s) + 1
       IN  <<SubSeq(s, i, stop - 1)>> \o DigitRunsFrom(s, stop)

FindAllDigits(s) == DigitRunsFrom(s, 1)

Abs(x) == IF x < 0 THEN -x ELSE x

---------------------------------------------------------------------------
(* src/osm_integration.py: TanzaniaLocations, in the order of the source *)

MAJOR_CITIES ==
  <<
    [key |-> <<"d", "a", "r", " ", "e", "s", " ", "s", "a", "l", "a", "a", "m">>, lat |-> -67924, lon |-> 392083],
    [key |-> <<"d", "o", "d", "o", "m", "a">>, lat |-> -61730, lon |-> 357419],
    [key |-> <<"m", "w", "a", "n", "z", "a">>, lat |-> -25167, lon |-> 329000],
    [key |-> <<"a", "r", "u", "s", "h", "a">>, lat |-> -33667, lon |-> 366833],
    [key |-> <<"m", "b", "e", "y", "a">>, lat |-> -89000, lon |-> 334500],
    [key |-> <<"m", "o", "r", "o", "g", "o", "r", "o">>, lat |-> -68167, lon |-> 376667],
    [key |-> <<"t", "a", "n", "g", "a">>, lat |-> -50667, lon |-> 391000],
    [key |-> <<"k", "i", "g", "o", "m", "a">>, lat |-> -48833, lon |-> 296333],
    [key |-> <<"t", "a", "b", "o", "r", "a">>, lat |-> -50167, lon |-> 328000],
    [key |-> <<"i", "r", "i", "n", "g", "a">>, lat |-> -77667, lon |-> 357000],
    [key |-> <<"s", "i", "n", "g", "i", "d", "a">>, lat |-> -48167, lon |-> 347500],
    [key |-> <<"l", "i", "u", "l", "i">>, lat |-> -110833, lon |-> 346333],
    [key |-> <<"m", "u", "s", "o", "m", "a">>, lat |-> -15000, lon |-> 338000],
    [key |-> <<"s", "o", "n", "g", "e", "a">>, lat |-> -106833, lon |-> 356500],
    [key |-> <<"m", "p", "a", "n", "d", "a">>, lat |-> -63667, lon |-> 310500]
  >>

DAR_ES_SALAAM_AREAS ==
  <<
    [key |-> <<"k", "i", "n", "o", "n", "d", "o", "n", "i">>, lat |-> -67667, lon |-> 391667],
    [key |-> <<"i", "l", "a", "l", "a">>, lat |-> -68167, lon |-> 391833],
    [key |-> <<"t", "e", "m", "e", "k", "e">>, lat |-> -68667, lon |-> 392500],
    [key |-> <<"u", "b", "u", "n", "g", "o">>, lat |-> -67833, lon |-> 392333],
    [key |-> <<"k", "i", "g", "a", "m", "b", "o", "n", "i">>, lat |-> -68333, lon |-> 393167],
    [key |-> <<"m", "a", "s", "a", "k", "i">>, lat |-> -67333, lon |-> 392833],
    [key |-> <<"m", "i", "k", "o", "c", "h", "e", "n", "i">>, lat |-> -67667, lon |-> 392333],
    [key |-> <<"m", "l", "i", "m", "i", "n", "i", " ", "c", "i", "t", "y">>, lat |-> -67667, lon |-> 392167],
    [key |-> <<"p", "o", "s", "t", "a">>, lat |-> -68167, lon |-> 392833],
    [key |-> <<"j", "a", "m", "h", "u", "r", "i">>, lat |-> -68000, lon |-> 392833],
    [key |-> <<"m", "n", "a", "z", "i", " ", "m", "m", "o", "j", "a">>, lat |-> -68167, lon |-> 392833],
    [key |-> <<"k", "a", "r", "i", "a", "k", "o", "o">>, lat |-> -68167, lon |-> 392667],
    [key |-> <<"u", "h", "u", "r", "u", " ", "r", "o", "a", "d">>, lat |-> -68167, lon |-> 392833],
    [key |-> <<"s", "a", "m", "o", "r", "a", " ", "a", "v", "e", "n", "u", "e">>, lat |-> -68167, lon |-> 392833],
    [key |-> <<"k", "i", "l", "i", "m", "a", "n", "j", "a", "r", "o", " ", "a", "v", "e", "n", "u", "e">>, lat |-> -68167, lon |-> 392833],
    [key |-> <<"a", "z", "i", "k", "i", "w", "e", " ", "s", "t", "r", "e", "e", "t">>, lat |-> -68167, lon |-> 392833]
  >>

DAR_LANDMARKS ==
  <<
    [key |-> <<"j", "u", "l", "i", "u", "s", " ", "n", "y", "e", "r", "e", "r", "e", " ", "i", "n", "t", "e", "r", "n", "a", "t", "i", "o", "n", "a", "l", " ", "a", "i", "r", "p", "o", "r", "t">>, lat |-> -68781, lon |-> 392026],
    [key |-> <<"p", "o", "r", "t", " ", "o", "f", " ", "d", "a", "r", " ", "e", "s", " ", "s", "a", "l", "a", "a", "m">>, lat |-> -68167, lon |-> 392833],
    [key |-> <<"n", "a", "t", "i", "o", "n", "a", "l", " ", "m", "u", "s", "e", "u", "m">>, lat |-> -61667, lon |-> 392167],
    [key |-> <<"s", "t", "a", "t", "e", " ", "h", "o", "u", "s", "e">>, lat |-> -68000, lon |-> 392833],
    [key |-> <<"u", "h", "u", "r", "u", " ", "m", "o", "n", "u", "m", "e", "n", "t">>, lat |-> -68167, lon |-> 392833],
    [key |-> <<"k", "a", "r", "i", "a", "k", "o", "o", " ", "m", "a", "r", "k", "e", "t">>, lat |-> -68167, lon |-> 392667],
    [key |-> <<"m", "l", "i", "m", "a", "n", "i", " ", "c", "i", "t", "y", " ", "s", "h", "o", "p", "p", "i", "n", "g", " ", "m", "a", "l", "l">>, lat |-> -67667, lon |-> 392167],
    [key |-> <<"s", "l", "i", "p", "w", "a", "y">>, lat |-> -68167, lon |-> 392833],
    [key |-> <<"c", "o", "c", "a", "c", "o", "l", "a", " ", "k", "w", "a", "n", "z", "a", " ", "r", "o", "a", "d">>, lat |-> -68167, lon |-> 392833],
    [key |-> <<"g", "a", "r", "d", "e", "n", " ", "a", "v", "e", "n", "u", "e">>, lat |-> -68167, lon |-> 392833]
  >>

(* src/config.py: SERVICE_KEYWORDS, in the order of the source *)

SERVICE_KEYWORDS ==
  <<
    [service |-> <<"a", "u", "t", "o", "_", "r", "e", "p", "a", "i", "r">>,
     keywords |-> << <<"a", "u", "t", "o">>, <<"c", "a", "r">>, <<"r", "e", "p", "a", "i", "r">>, <<"m", "e", "c", "h", "a", "n", "i", "c">>, <<"v", "e", "h", "i", "c", "l", "e">>, <<"a", "u", "t", "o", "m", "o", "t", "i", "v", "e">> >>],
    [service |-> <<"m", "e", "d", "i", "c", "a", "l">>,
     keywords |-> << <<"m", "e", "d", "i", "c", "a", "l">>, <<"c", "l", "i", "n", "i", "c">>, <<"d", "o", "c", "t", "o", "r">>, <<"h", "e", "a", "l", "t", "h">>, <<"h", "e", "a", "l", "t", "h", "c", "a", "r", "e">>, <<"h", "o", "s", "p", "i", "t", "a", "l">> >>],
    [service |-> <<"h", "a", "i", "r", "_", "s", "a", "l", "o", "n">>,
     keywords |-> << <<"h", "a", "i", "r">>, <<"s", "a", "l", "o", "n">>, <<"c", "u", "t">>, <<"s", "t", "y", "l", "e">>, <<"b", "a", "r", "b", "e", "r">>, <<"b", "e", "a", "u", "t", "y">> >>],
    [service |-> <<"r", "e", "s", "t", "a", "u", "r", "a", "n", "t">>,
     keywords |-> << <<"r", "e", "s", "t", "a", "u", "r", "a", "n", "t">>, <<"f", "o", "o", "d">>, <<"e", "a", "t">>, <<"d", "i", "n", "i", "n", "g">>, <<"c", "a", "f", "e">>, <<"d", "i", "n", "e", "r">> >>],
    [service |-> <<"p", "l", "u", "m", "b", "i", "n", "g">>,
     keywords |-> << <<"p", "l", "u", "m", "b", "i", "n", "g">>, <<"p", "l", "u", "m", "b", "e", "r">>, <<"p", "i", "p", "e", "s">>, <<"w", "a", "t", "e", "r">>, <<"l", "e", "a", "k">> >>],
    [service |-> <<"e", "l", "e", "c", "t", "r", "i", "c", "a", "l">>,
     keywords |-> << <<"e", "l", "e", "c", "t", "r", "i", "c", "a", "l">>, <<"e", "l", "e", "c", "t", "r", "i", "c", "i", "a", "n">>, <<"w", "i", "r", "i", "n", "g">>, <<"p", "o", "w", "e", "r">>, <<"l", "i", "g", "h", "t", "s">> >>],
    [service |-> <<"c", "l", "e", "a", "n", "i", "n", "g">>,
     keywords |-> << <<"c", "l", "e", "a", "n", "i", "n", "g">>, <<"c", "l", "e", "a", "n", "e", "r">>, <<"m", "a", "i", "d">>, <<"h", "o", "u", "s", "e", "k", "e", "e", "p", "i", "n", "g">> >>],
    [service |-> <<"t", "u", "t", "o", "r", "i", "n", "g">>,
     keywords |-> << <<"t", "u", "t", "o", "r", "i", "n", "g">>, <<"t", "u", "t", "o", "r">>, <<"t", "e", "a", "c", "h", "i", "n", "g">>, <<"l", "e", "s", "s", "o", "n", "s">>, <<"e", "d", "u", "c", "a", "t", "i", "o", "n">> >>]
  >>

---------------------------------------------------------------------------
(* The external collaborators' data *)

\* The nodes the Overpass map server holds, in the order it returns them.  kv
\* is the tag a query selects by; tags holds the tags the source reads, an
\* absent tag being None.
OsmNode(kv, lat, lon, name, phone, street) ==
  [kv |-> kv, lat |-> lat, lon |-> lon,
   tags |-> [name |-> name, phone |-> phone, contact_phone |-> None,
             street |-> street, suburb |-> None, neighbourhood |-> None]]

OsmNodeTable ==
  <<
    OsmNode("amenity=restaurant", -67500, 392833, Some(<<"S", "l", "i", "p", "w", "a", "y", " ", "G", "r", "i", "l", "l">>),
            Some("+255-22-260-0893"), Some(<<"C", "h", "o", "l", "e", " ", "R", "o", "a", "d">>)),
    OsmNode("amenity=restaurant", -67400, 392800, Some(<<"M", "a", "m", "a", " ", "L", "i", "s", "h", "e">>), None, None),
    OsmNode("amenity=restaurant", -67400, 392800, Some(<<"C", "h", "e", "f", " ", "P", "r", "i", "d", "e">>), None, None),
    OsmNode("amenity=cafe",       -67350, 392833, None, None, None),
    OsmNode("amenity=cafe",       -68233, 392833, Some(<<"C", "o", "r", "n", "e", "r", " ", "C", "a", "f", "e">>), None, None),
    OsmNode("amenity=cafe",       -65532, 392833, Some(<<"M", "b", "e", "z", "i", " ", "B", "e", "a", "c", "h", " ", "C", "a", "f", "e">>), None, None),
    OsmNode("amenity=fast_food",  -68700, 392900, Some(<<"F", "e", "r", "r", "y", " ", "F", "a", "s", "t", " ", "F", "o", "o", "d">>), None, None),
    OsmNode("amenity=cafe",       -67200, 392850, Some(<<"O", "y", "s", "t", "e", "r", " ", "B", "a", "y", " ", "C", "a", "f", "e">>), None, None)
  >>

OsmNodes == SubSeq(OsmNodeTable, 1, MaxOsmNodes)

\* What the Nominatim geocoder knows: query -> (coordinate, address).
NominatimData ==
  <<
    [query |-> <<"s", "i", "n", "z", "a", ",", " ", "D", "a", "r", " ", "e", "s", " ", "S", "a", "l", "a", "a", "m", ",", " ", "T", "a", "n", "z", "a", "n", "i", "a">>, lat |-> -67830, lon |-> 392260,
     address |-> <<"S", "i", "n", "z", "a", ",", " ", "K", "i", "n", "o", "n", "d", "o", "n", "i", ",", " ", "D", "a", "r", " ", "e", "s", " ", "S", "a", "l", "a", "a", "m", ",", " ", "T", "a", "n", "z", "a", "n", "i", "a">>],
    [query |-> <<"m", "a", "s", "a", "k", "i", ",", " ", "D", "a", "r", " ", "e", "s", " ", "S", "a", "l", "a", "a", "m", ",", " ", "T", "a", "n", "z", "a", "n", "i", "a">>, lat |-> -67350, lon |-> 392833,
     address |-> <<"M", "a", "s", "a", "k", "i", ",", " ", "K", "i", "n", "o", "n", "d", "o", "n", "i", ",", " ", "D", "a", "r", " ", "e", "s", " ", "S", "a", "l", "a", "a", "m", ",", " ", "T", "a", "n", "z", "a", "n", "i", "a">>]
  >>

\* Location.distance_to between the coordinates of the model, in metres.
HaversineMetres ==
    <<-67333, 392833, -67333, 392833>> :> 0 @@
    <<-67333, 392833, -68167, 392833>> :> 9274 @@
    <<-67333, 392833, -67924, 392083>> :> 10572 @@
    <<-67333, 392833, -67830, 392260>> :> 8401 @@
    <<-67333, 392833, -67500, 392833>> :> 1857 @@
    <<-67333, 392833, -67400, 392800>> :> 829 @@
    <<-67333, 392833, -67350, 392833>> :> 189 @@
    <<-67333, 392833, -68233, 392833>> :> 10008 @@
    <<-67333, 392833, -65532, 392833>> :> 20026 @@
    <<-67333, 392833, -68700, 392900>> :> 15218 @@
    <<-67333, 392833, -67200, 392850>> :> 1491 @@
    <<-67333, 392833, -68781, 392026>> :> 18402 @@
    <<-67333, 392833, 68781, -1407974>> :> 19996685 @@
    <<-68167, 392833, -67333, 392833>> :> 9274 @@
    <<-68167, 392833, -68167, 392833>> :> 0 @@
    <<-68167, 392833, -67924, 392083>> :> 8711 @@
    <<-68167, 392833, -67830, 392260>> :> 7353 @@
    <<-68167, 392833, -67500, 392833>> :> 7417 @@
    <<-68167, 392833, -67400, 392800>> :> 8536 @@
    <<-68167, 392833, -67350, 392833>> :> 9085 @@
    <<-68167, 392833, -68233, 392833>> :> 734 @@
    <<-68167, 392833, -65532, 392833>> :> 29300 @@
    <<-68167, 392833, -68700, 392900>> :> 5973 @@
    <<-68167, 392833, -67200, 392850>> :> 10754 @@
    <<-68167, 392833, -68781, 392026>> :> 11225 @@
    <<-68167, 392833, 68781, -1407974>> :> 20003862 @@
    <<-67924, 392083, -67333, 392833>> :> 10572 @@
    <<-67924, 392083, -68167, 392833>> :> 8711 @@
    <<-67924, 392083, -67924, 392083>> :> 0 @@
    <<-67924, 392083, -67830, 392260>> :> 2216 @@
    <<-67924, 392083, -67500, 392833>> :> 9529 @@
    <<-67924, 392083, -67400, 392800>> :> 9830 @@
    <<-67924, 392083, -67350, 392833>> :> 10456 @@
    <<-67924, 392083, -68233, 392833>> :> 8965 @@
    <<-67924, 392083, -65532, 392833>> :> 27858 @@
    <<-67924, 392083, -68700, 392900>> :> 12483 @@
    <<-67924, 392083, -67200, 392850>> :> 11685 @@
    <<-67924, 392083, -68781, 392026>> :> 9550 @@
    <<-67924, 392083, 68781, -1407974>> :> 20005537 @@
    <<-67830, 392260, -67333, 392833>> :> 8401 @@
    <<-67830, 392260, -68167, 392833>> :> 7353 @@
    <<-67830, 392260, -67924, 392083>> :> 2216 @@
    <<-67830, 392260, -67830, 392260>> :> 0 @@
    <<-67830, 392260, -67500, 392833>> :> 7314 @@
    <<-67830, 392260, -67400, 392800>> :> 7643 @@
    <<-67830, 392260, -67350, 392833>> :> 8278 @@
    <<-67830, 392260, -68233, 392833>> :> 7753 @@
    <<-67830, 392260, -65532, 392833>> :> 26325 @@
    <<-67830, 392260, -68700, 392900>> :> 11980 @@
    <<-67830, 392260, -67200, 392850>> :> 9567 @@
    <<-67830, 392260, -68781, 392026>> :> 10886 @@
    <<-67830, 392260, 68781, -1407974>> :> 20004201 @@
    <<-67500, 392833, -67333, 392833>> :> 1857 @@
    <<-67500, 392833, -68167, 392833>> :> 7417 @@
    <<-67500, 392833, -67924, 392083>> :> 9529 @@
    <<-67500, 392833, -67830, 392260>> :> 7314 @@
    <<-67500, 392833, -67500, 392833>> :> 0 @@
    <<-67500, 392833, -67400, 392800>> :> 1170 @@
    <<-67500, 392833, -67350, 392833>> :> 1668 @@
    <<-67500, 392833, -68233, 392833>> :> 8151 @@
    <<-67500, 392833, -65532, 392833>> :> 21883 @@
    <<-67500, 392833, -68700, 392900>> :> 13364 @@
    <<-67500, 392833, -67200, 392850>> :> 3341 @@
    <<-67500, 392833, -68781, 392026>> :> 16801 @@
    <<-67500, 392833, 68781, -1407974>> :> 19998286 @@
    <<-67400, 392800, -67333, 392833>> :> 829 @@
    <<-67400, 392800, -68167, 392833>> :> 8536 @@
    <<-67400, 392800, -67924, 392083>> :> 9830 @@
    <<-67400, 392800, -67830, 392260>> :> 7643 @@
    <<-67400, 392800, -67500, 392833>> :> 1170 @@
    <<-67400, 392800, -67400, 392800>> :> 0 @@
    <<-67400, 392800, -67350, 392833>> :> 665 @@
    <<-67400, 392800, -68233, 392833>> :> 9270 @@
    <<-67400, 392800, -65532, 392833>> :> 20774 @@
    <<-67400, 392800, -68700, 392900>> :> 14497 @@
    <<-67400, 392800, -67200, 392850>> :> 2291 @@
    <<-67400, 392800, -68781, 392026>> :> 17574 @@
    <<-67400, 392800, 68781, -1407974>> :> 19997513 @@
    <<-67350, 392833, -67333, 392833>> :> 189 @@
    <<-67350, 392833, -68167, 392833>> :> 9085 @@
    <<-67350, 392833, -67924, 392083>> :> 10456 @@
    <<-67350, 392833, -67830, 392260>> :> 8278 @@
    <<-67350, 392833, -67500, 392833>> :> 1668 @@
    <<-67350, 392833, -67400, 392800>> :> 665 @@
    <<-67350, 392833, -67350, 392833>> :> 0 @@
    <<-67350, 392833, -68233, 392833>> :> 9819 @@
    <<-67350, 392833, -65532, 392833>> :> 20215 @@
    <<-67350, 392833, -68700, 392900>> :> 15030 @@
    <<-67350, 392833, -67200, 392850>> :> 1678 @@
    <<-67350, 392833, -68781, 392026>> :> 18237 @@
    <<-67350, 392833, 68781, -1407974>> :> 19996850 @@
    <<-68233, 392833, -67333, 392833>> :> 10008 @@
    <<-68233, 392833, -68167, 392833>> :> 734 @@
    <<-68233, 392833, -67924, 392083>> :> 8965 @@
    <<-68233, 392833, -67830, 392260>> :> 7753 @@
    <<-68233, 392833, -67500, 392833>> :> 8151 @@
    <<-68233, 392833, -67400, 392800>> :> 9270 @@
    <<-68233, 392833, -67350, 392833>> :> 9819 @@
    <<-68233, 392833, -68233, 392833>> :> 0 @@
    <<-68233, 392833, -65532, 392833>> :> 30034 @@
    <<-68233, 392833, -68700, 392900>> :> 5245 @@
    <<-68233, 392833, -67200, 392850>> :> 11488 @@
    <<-68233, 392833, -68781, 392026>> :> 10794 @@
    <<-68233, 392833, 68781, -1407974>> :> 20004293 @@
    <<-65532, 392833, -67333, 392833>> :> 20026 @@
    <<-65532, 392833, -68167, 392833>> :> 29300 @@
    <<-65532, 392833, -67924, 392083>> :> 27858 @@
    <<-65532, 392833, -67830, 392260>> :> 26325 @@
    <<-65532, 392833, -67500, 392833>> :> 21883 @@
    <<-65532, 392833, -67400, 392800>> :> 20774 @@
    <<-65532, 392833, -67350, 392833>> :> 20215 @@
    <<-65532, 392833, -68233, 392833>> :> 30034 @@
    <<-65532, 392833, -65532, 392833>> :> 0 @@
    <<-65532, 392833, -68700, 392900>> :> 35234 @@
    <<-65532, 392833, -67200, 392850>> :> 18548 @@
    <<-65532, 392833, -68781, 392026>> :> 37210 @@
    <<-65532, 392833, 68781, -1407974>> :> 19977877 @@
    <<-68700, 392900, -67333, 392833>> :> 15218 @@
    <<-68700, 392900, -68167, 392833>> :> 5973 @@
    <<-68700, 392900, -67924, 392083>> :> 12483 @@
    <<-68700, 392900, -67830, 392260>> :> 11980 @@
    <<-68700, 392900, -67500, 392833>> :> 13364 @@
    <<-68700, 392900, -67400, 392800>> :> 14497 @@
    <<-68700, 392900, -67350, 392833>> :> 15030 @@
    <<-68700, 392900, -68233, 392833>> :> 5245 @@
    <<-68700, 392900, -65532, 392833>> :> 35234 @@
    <<-68700, 392900, -68700, 392900>> :> 0 @@
    <<-68700, 392900, -67200, 392850>> :> 16688 @@
    <<-68700, 392900, -68781, 392026>> :> 9691 @@
    <<-68700, 392900, 68781, -1407974>> :> 20005396 @@
    <<-67200, 392850, -67333, 392833>> :> 1491 @@
    <<-67200, 392850, -68167, 392833>> :> 10754 @@
    <<-67200, 392850, -67924, 392083>> :> 11685 @@
    <<-67200, 392850, -67830, 392260>> :> 9567 @@
    <<-67200, 392850, -67500, 392833>> :> 3341 @@
    <<-67200, 392850, -67400, 392800>> :> 2291 @@
    <<-67200, 392850, -67350, 392833>> :> 1678 @@
    <<-67200, 392850, -68233, 392833>> :> 11488 @@
    <<-67200, 392850, -65532, 392833>> :> 18548 @@
    <<-67200, 392850, -68700, 392900>> :> 16688 @@
    <<-67200, 392850, -67200, 392850>> :> 0 @@
    <<-67200, 392850, -68781, 392026>> :> 19795 @@
    <<-67200, 392850, 68781, -1407974>> :> 19995292 @@
    <<-68781, 392026, -67333, 392833>> :> 18402 @@
    <<-68781, 392026, -68167, 392833>> :> 11225 @@
    <<-68781, 392026, -67924, 392083>> :> 9550 @@
    <<-68781, 392026, -67830, 392260>> :> 10886 @@
    <<-68781, 392026, -67500, 392833>> :> 16801 @@
    <<-68781, 392026, -67400, 392800>> :> 17574 @@
    <<-68781, 392026, -67350, 392833>> :> 18237 @@
    <<-68781, 392026, -68233, 392833>> :> 10794 @@
    <<-68781, 392026, -65532, 392833>> :> 37210 @@
    <<-68781, 392026, -68700, 392900>> :> 9691 @@
    <<-68781, 392026, -67200, 392850>> :> 19795 @@
    <<-68781, 392026, -68781, 392026>> :> 0 @@
    <<68781, -1407974, -67333, 392833>> :> 19996685 @@
    <<68781, -1407974, -68167, 392833>> :> 20003862 @@
    <<68781, -1407974, -67924, 392083>> :> 20005537 @@
    <<68781, -1407974, -67830, 392260>> :> 20004201 @@
    <<68781, -1407974, -67500, 392833>> :> 19998286 @@
    <<68781, -1407974, -67400, 392800>> :> 19997513 @@
    <<68781, -1407974, -67350, 392833>> :> 19996850 @@
    <<68781, -1407974, -68233, 392833>> :> 20004293 @@
    <<68781, -1407974, -65532, 392833>> :> 19977877 @@
    <<68781, -1407974, -68700, 392900>> :> 20005396 @@
    <<68781, -1407974, -67200, 392850>> :> 19995292 @@
    <<68781, -1407974, 68781, -1407974>> :> 0

\* Line 41: for these pairs of the coordinates rounding makes a exceed 1, and
\* math.sqrt(1 - a) raises ValueError.  They have no entry in HaversineMetres.
DistanceRaises(self, other) ==
  <<self.latitude, self.longitude, other.latitude, other.longitude>> \in
    {<<-68781, 392026, 68781, -1407974>>, <<68781, -1407974, -68781, 392026>>}

---------------------------------------------------------------------------
(* src/data_models.py *)

\* class ChatState (src/main.py)
WELCOME          == "welcome"
ASK_LOCATION     == "ask_location"
ASK_SERVICE      == "ask_service"
ASK_BUDGET       == "ask_budget"
SHOW_RESULTS     == "show_results"
COMPARE_OPTIONS  == "compare_options"
GET_MORE_DETAILS == "get_more_details"
CONFIRM_CHOICE   == "confirm_choice"

\* class BudgetRange
LOW_COST  == "low-cost"
MID_RANGE == "mid-range"
PREMIUM   == "premium"

\* @dataclass Location
Location(lat, lon, name, landmark) ==
  [latitude |-> lat, longitude |-> lon, name |-> name, landmark |-> landmark]

\* Location.distance_to: the haversine formula with R = 6371 km.  Its value for
\* the coordinates of the model, computed by the source's own formula and
\* rounded to the metre, is HaversineMetres.
DistanceTo(self, other) ==
  HaversineMetres[<<self.latitude, self.longitude, other.latitude, other.longitude>>]

\* @dataclass ServiceProvider (description and operating_hours, which no handler
\* reads except to print them, are left out)
ServiceProvider(id, name, service_type, location, price_range, rating, accessibility, contact_info) ==
  [id |-> id, name |-> name, service_type |-> service_type, location |-> location,
   price_range |-> price_range, rating |-> rating, accessibility |-> accessibility,
   contact_info |-> contact_info]

---------------------------------------------------------------------------
(* src/osm_integration.py *)

\* The index of the first entry of a table whose test holds, 0 if none does:
\* hits[i] is the test of the loop on the i-th entry.
FirstIndex(hits) ==
  IF \E i \in DOMAIN hits : hits[i]
  THEN CHOOSE i \in DOMAIN hits : hits[i] /\ \A j \in 1..(i-1) : ~hits[j]
  ELSE 0

\* The entry `city in text_lower or city.replace(" ", "") in text_lower' selects
KeyIn(text_lower, e) ==
  Contains(text_lower, e.key) \/ Contains(text_lower, RemoveSpaces(e.key))

\* The entry `any(word in text_lower for word in landmark.split())' selects
WordsIn(text_lower, words) ==
  \E w \in 1..Len(words) : Contains(text_lower, words[w])

\* The Location built for a city or a landmark (name and landmark are both
\* key.title()) and for an area of Dar es Salaam
TitledLocation(e, title) == Some(Location(e.lat, e.lon, title, title))
AreaLocation(e, title) ==
  Some(Location(e.lat, e.lon, title, <<"D", "a", "r", " ", "e", "s", " ", "S", "a", "l", "a", "a", "m", " ", "-", " ">> \o title))

\* The three loops of TanzaniaLocations.get_location_from_text, each entered
\* only if the one before it returned nothing
LandmarkLoop(landmark) ==
  IF landmark # 0
  THEN TitledLocation(DAR_LANDMARKS[landmark], Title(DAR_LANDMARKS[landmark].key))
  ELSE None

AreaLoop(text_lower, area) ==
  IF area # 0
  THEN AreaLocation(DAR_ES_SALAAM_AREAS[area], Title(DAR_ES_SALAAM_AREAS[area].key))
  ELSE LandmarkLoop(FirstIndex([i \in DOMAIN DAR_LANDMARKS |->
                                 WordsIn(text_lower, Split(DAR_LANDMARKS[i].key))]))

CityLoop(text_lower, city) ==
  IF city # 0
  THEN TitledLocation(MAJOR_CITIES[city], Title(MAJOR_CITIES[city].key))
  ELSE AreaLoop(text_lower,
                FirstIndex([i \in DOMAIN DAR_ES_SALAAM_AREAS |->
                              KeyIn(text_lower, DAR_ES_SALAAM_AREAS[i])]))

GazetteerLookup(text_lower) ==
  CityLoop(text_lower, FirstIndex([i \in DOMAIN MAJOR_CITIES |->
                                    KeyIn(text_lower, MAJOR_CITIES[i])]))

\* TanzaniaLocations.get_location_from_text
TanzaniaLocations_get_location_from_text(text) == GazetteerLookup(Strip(Lower(text)))

\* OpenStreetMapIntegration._extract_landmark
AddressLandmarks ==
  << <<"K", "i", "l", "i", "m", "a", "n", "j", "a", "r", "o", " ", "A", "v", "e", "n", "u", "e">>, <<"S", "a", "m", "o", "r", "a", " ", "A", "v", "e", "n", "u", "e">>, <<"U", "h", "u", "r", "u", " ", "R", "o", "a", "d">>, <<"A", "z", "i", "k", "i", "w", "e", " ", "S", "t", "r", "e", "e", "t">>,
     <<"M", "a", "s", "a", "k", "i">>, <<"M", "i", "k", "o", "c", "h", "e", "n", "i">>, <<"K", "i", "n", "o", "n", "d", "o", "n", "i">>, <<"I", "l", "a", "l", "a">>, <<"T", "e", "m", "e", "k", "e">>, <<"U", "b", "u", "n", "g", "o">>,
     <<"M", "l", "i", "m", "a", "n", "i", " ", "C", "i", "t", "y">>, <<"P", "o", "s", "t", "a">>, <<"J", "a", "m", "h", "u", "r", "i">>, <<"M", "n", "a", "z", "i", " ", "M", "m", "o", "j", "a">>,
     <<"K", "a", "r", "i", "a", "k", "o", "o", " ", "M", "a", "r", "k", "e", "t">>, <<"M", "o", "m", "b", "a", "s", "a", " ", "R", "o", "a", "d">>, <<"B", "a", "g", "a", "m", "o", "y", "o", " ", "R", "o", "a", "d">> >>

LandmarkAt(i) == IF i # 0 THEN AddressLandmarks[i] ELSE <<"D", "a", "r", " ", "e", "s", " ", "S", "a", "l", "a", "a", "m">>

LandmarkIn(address_lower) ==
  LandmarkAt(FirstIndex([i \in DOMAIN AddressLandmarks |->
                          Contains(address_lower, Lower(AddressLandmarks[i]))]))

extract_landmark(address) ==
  IF Len(address) = 0 THEN <<>> ELSE LandmarkIn(Lower(address))

\* The query geocode_location sends to the geocoder for a text
QueryFor(location_text, t) ==
  IF Contains(t, <<"d", "a", "r">>) \/ Contains(t, <<"e", "s", " ", "s", "a", "l", "a", "a", "m">>)
  THEN location_text \o <<",", " ", "D", "a", "r", " ", "e", "s", " ", "S", "a", "l", "a", "a", "m", ",", " ", "T", "a", "n", "z", "a", "n", "i", "a">>
  ELSE IF ~(Contains(t, <<"t", "a", "n", "z", "a", "n", "i", "a">>) \/ Contains(t, <<"d", "a", "r", " ", "e", "s", " ", "s", "a", "l", "a", "a", "m">>))
  THEN location_text \o <<",", " ", "D", "a", "r", " ", "e", "s", " ", "S", "a", "l", "a", "a", "m", ",", " ", "T", "a", "n", "z", "a", "n", "i", "a">>
  ELSE location_text

GeocodeQuery(location_text) == QueryFor(location_text, Lower(location_text))

\* self.geolocator.geocode(query) when it answers: what NominatimData holds
\* for the query (entry i), nothing if it holds none (i = 0)
GeocodedLocation(location_text, i) ==
  IF i = 0 THEN None
  ELSE Some(Location(NominatimData[i].lat, NominatimData[i].lon,
                     Title(location_text),
                     extract_landmark(NominatimData[i].address)))

NominatimLookup(location_text, query) ==
  GeocodedLocation(location_text,
                   FirstIndex([i \in DOMAIN NominatimData |->
                                 NominatimData[i].query = query]))

\* OpenStreetMapIntegration.geocode_location.  available is the module's
\* OSM_AVAILABLE; geocoder is what the call self.geolocator.geocode(query) does:
\* "raise" (any exception) or "answer".  config.get_location_from_text builds a
\* new OpenStreetMapIntegration for each call, so the geocode_cache is empty
\* here.
geocode_location(location_text, available, geocoder) ==
  IF ~available THEN None
  ELSE IF geocoder = "raise" THEN None
  ELSE NominatimLookup(location_text, GeocodeQuery(location_text))

\* osm_queries of get_service_providers_from_osm
OsmQueries ==
  <<
    [service |-> <<"a", "u", "t", "o", "_", "r", "e", "p", "a", "i", "r">>, tags |-> <<"shop=car_repair", "shop=car",
                                         "amenity=car_wash", "shop=tyres">>],
    [service |-> <<"m", "e", "d", "i", "c", "a", "l">>, tags |-> <<"amenity=hospital", "amenity=clinic",
                                         "amenity=doctors", "amenity=pharmacy">>],
    [service |-> <<"h", "a", "i", "r", "_", "s", "a", "l", "o", "n">>, tags |-> <<"shop=hairdresser", "shop=beauty">>],
    [service |-> <<"r", "e", "s", "t", "a", "u", "r", "a", "n", "t">>, tags |-> <<"amenity=restaurant", "amenity=cafe",
                                         "amenity=fast_food">>],
    [service |-> <<"p", "l", "u", "m", "b", "i", "n", "g">>, tags |-> <<"craft=plumber", "shop=hardware">>],
    [service |-> <<"e", "l", "e", "c", "t", "r", "i", "c", "a", "l">>, tags |-> <<"craft=electrician", "shop=electronics">>],
    [service |-> <<"c", "l", "e", "a", "n", "i", "n", "g">>, tags |-> <<"shop=laundry", "office=estate_agent">>],
    [service |-> <<"t", "u", "t", "o", "r", "i", "n", "g">>, tags |-> <<"amenity=school", "amenity=college",
                                         "amenity=university">>]
  >>

TagsAt(i) == IF i = 0 THEN <<>> ELSE OsmQueries[i].tags

\* osm_queries[service_type], <<>> when service_type is not a key
OsmTags(service_type) ==
  TagsAt(FirstIndex([i \in DOMAIN OsmQueries |->
                      OsmQueries[i].service = service_type]))

\* OpenStreetMapIntegration._estimate_price_range (in TZS)
estimate_price_range(service_type) ==
  CASE service_type = <<"a", "u", "t", "o", "_", "r", "e", "p", "a", "i", "r">> -> <<10000, 50000>>
    [] service_type = <<"m", "e", "d", "i", "c", "a", "l">> -> <<5000, 20000>>
    [] service_type = <<"h", "a", "i", "r", "_", "s", "a", "l", "o", "n">> -> <<3000, 15000>>
    [] service_type = <<"r", "e", "s", "t", "a", "u", "r", "a", "n", "t">> -> <<5000, 25000>>
    [] service_type = <<"p", "l", "u", "m", "b", "i", "n", "g">> -> <<5000, 20000>>
    [] service_type = <<"e", "l", "e", "c", "t", "r", "i", "c", "a", "l">> -> <<3000, 15000>>
    [] service_type = <<"c", "l", "e", "a", "n", "i", "n", "g">> -> <<2000, 10000>>
    [] service_type = <<"t", "u", "t", "o", "r", "i", "n", "g">> -> <<5000, 20000>>
    [] OTHER -> <<5000, 20000>>

\* OpenStreetMapIntegration._estimate_rating
estimate_rating == 4

\* OpenStreetMapIntegration._determine_accessibility (distance in metres)
determine_accessibility(distance) ==
  IF distance <= 1000 THEN "walking"
  ELSE IF distance <= 5000 THEN "public_transport"
  ELSE "vehicle"

\* OpenStreetMapIntegration._extract_landmark_from_tags
extract_landmark_from_tags(tags) ==
  IF tags.street # None THEN Get(tags.street)
  ELSE IF tags.suburb # None THEN Get(tags.suburb)
  ELSE IF tags.neighbourhood # None THEN Get(tags.neighbourhood)
  ELSE <<"D", "a", "r", " ", "e", "s", " ", "S", "a", "l", "a", "a", "m">>

\* node.tags.get('phone', node.tags.get('contact:phone', '+255-XXX-XXXXXX'))
ContactInfo(tags) ==
  IF tags.phone # None THEN Get(tags.phone)
  ELSE IF tags.contact_phone # None THEN Get(tags.contact_phone)
  ELSE "+255-XXX-XXXXXX"

\* The nodes the map server returns for one tag and one bounding box: those it
\* holds with the tag inside the box, in its own order.
NodesInBox(kv, lat, lon, lat_offset, lon_offset) ==
  SelectSeq(OsmNodes, LAMBDA n : /\ n.kv = kv
                                 /\ Abs(n.lat - lat) <= lat_offset
                                 /\ Abs(n.lon - lon) <= lon_offset)

\* The box is the source's: lat_offset = max_distance_km / 111.0 and
\* lon_offset = max_distance_km / (111.0 * abs(lat)), here in 1e-4 degrees.
OverpassQuery(kv, lat, lon, max_distance_km) ==
  NodesInBox(kv, lat, lon, (max_distance_km * 10000) \div 111,
             (max_distance_km * 100000000) \div (111 * Abs(lat)))

\* Lines 211-216: the Location of a named node
NodeLocation(node) ==
  Location(node.lat, node.lon, Get(node.tags.name),
           extract_landmark_from_tags(node.tags))

\* Lines 218-233 without the test of line 220: every named node is appended
AppendUnchecked(providers, node, service_type, provider_location, distance, max_distance_km) ==
  Append(providers,
         ServiceProvider(
           <<"o", "s", "m", "_">> \o service_type \o <<"_">> \o IntToStr(Len(providers)),
           Get(node.tags.name), service_type, provider_location,
           estimate_price_range(service_type), estimate_rating,
           determine_accessibility(distance), ContactInfo(node.tags)))

\* Lines 218-233 with the id numbered 0 for every provider
AppendWithinNumberedZero(providers, node, service_type, provider_location, distance, max_distance_km) ==
  IF distance <= max_distance_km * 1000
  THEN Append(providers,
              ServiceProvider(
                <<"o", "s", "m", "_">> \o service_type \o <<"_">> \o IntToStr(0),
                Get(node.tags.name), service_type, provider_location,
                estimate_price_range(service_type), estimate_rating,
                determine_accessibility(distance), ContactInfo(node.tags)))
  ELSE providers

\* Lines 218-233: the provider is appended if it is within max_distance_km
AppendWithin(providers, node, service_type, provider_location, distance, max_distance_km) ==
  IF distance <= max_distance_km * 1000
  THEN Append(providers,
              ServiceProvider(
                <<"o", "s", "m", "_">> \o service_type \o <<"_">> \o IntToStr(Len(providers)),
                Get(node.tags.name), service_type, provider_location,
                estimate_price_range(service_type), estimate_rating,
                determine_accessibility(distance), ContactInfo(node.tags)))
  ELSE providers

AppendNamed(providers, node, service_type, user_location, provider_location, max_distance_km) ==
  AppendWithin(providers, node, service_type, provider_location,
               DistanceTo(user_location, provider_location), max_distance_km)

\* Line 210: a node without a name tag is skipped
AppendNode(providers, node, service_type, user_location, max_distance_km) ==
  IF node.tags.name = None THEN providers
  ELSE AppendNamed(providers, node, service_type, user_location,
                   NodeLocation(node), max_distance_km)

\* The loop `for node in result.nodes' of get_service_providers_from_osm
RECURSIVE AppendNodes(_, _, _, _, _)
AppendNodes(providers, nodes, service_type, user_location, max_distance_km) ==
  IF nodes = <<>> THEN providers
  ELSE AppendNodes(AppendNode(providers, Head(nodes), service_type,
                              user_location, max_distance_km),
                   Tail(nodes), service_type, user_location, max_distance_km)

\* The loop `for tag in osm_queries[service_type]': a query that raises is
\* skipped (continue), and the loop stops once 20 providers are collected.
\* answers[i] tells whether the i-th query is answered (TRUE) or raises.
RECURSIVE QueryTags(_, _, _, _, _, _, _)
RECURSIVE AfterTag(_, _, _, _, _, _, _)
AfterTag(providers, tags, i, answers, service_type, user_location, max_distance_km) ==
  IF Len(providers) >= 20 THEN providers
  ELSE QueryTags(providers, tags, i + 1, answers, service_type, user_location,
                 max_distance_km)

QueryTags(providers, tags, i, answers, service_type, user_location, max_distance_km) ==
  IF i > Len(tags) THEN providers
  ELSE IF ~answers[i]
  THEN QueryTags(providers, tags, i + 1, answers, service_type, user_location,
                 max_distance_km)
  ELSE AfterTag(AppendNodes(providers,
                            OverpassQuery(tags[i], user_location.latitude,
                                          user_location.longitude, max_distance_km),
                            service_type, user_location, max_distance_km),
                tags, i, answers, service_type, user_location, max_distance_km)

\* The body of get_service_providers_from_osm once the tags are looked up.
\* The result is [raised, providers]: the division by abs(lat) raises
\* ZeroDivisionError at latitude 0, outside the loop's try.
ProvidersForTags(tags, service_type, user_location, max_distance_km, answers) ==
  IF tags = <<>> THEN [raised |-> FALSE, providers |-> <<>>]
  ELSE IF user_location.latitude = 0 THEN [raised |-> TRUE, providers |-> <<>>]
  ELSE [raised |-> FALSE,
        providers |-> QueryTags(<<>>, tags, 1, answers, service_type,
                                user_location, max_distance_km)]

\* OpenStreetMapIntegration.get_service_providers_from_osm
get_service_providers_from_osm(service_type, user_location, max_distance_km, available, answers) ==
  IF ~available THEN [raised |-> FALSE, providers |-> <<>>]
  ELSE ProvidersForTags(OsmTags(service_type), service_type, user_location,
                        max_distance_km, answers)

---------------------------------------------------------------------------
(* src/config.py *)

\* CHATBOT_CONFIG["max_search_distance_km"]
max_search_distance_km == 10

\* CHATBOT_CONFIG["default_budget_ranges"]
default_budget_ranges ==
  [low_cost |-> <<0, 50>>, mid_range |-> <<50, 150>>, premium |-> <<150, 500>>]

\* load_service_providers: the static provider list, which the source leaves
\* empty
load_service_providers == <<>>

\* The fallback of get_location_from_text
DefaultLocation ==
  Location(-67924, 392083, <<"D", "a", "r", " ", "e", "s", " ", "S", "a", "l", "a", "a", "m">>, <<"C", "e", "n", "t", "r", "a", "l", " ", "B", "u", "s", "i", "n", "e", "s", "s", " ", "D", "i", "s", "t", "r", "i", "c", "t">>)

\* The fallback of get_location_from_text with latitude and longitude swapped
GeocodedOrSwappedDefault(text, geocoder, osm_location) ==
  IF osm_location # None
  THEN [location |-> Get(osm_location),
        geocoded |-> <<[text |-> text, geocoder |-> geocoder]>>]
  ELSE [location |-> Location(392083, -67924, <<"D", "a", "r", " ", "e", "s", " ", "S", "a", "l", "a", "a", "m">>,
                              <<"C", "e", "n", "t", "r", "a", "l", " ", "B", "u", "s", "i", "n", "e", "s", "s", " ", "D", "i", "s", "t", "r", "i", "c", "t">>),
        geocoded |-> <<[text |-> text, geocoder |-> geocoder]>>]

\* The three sources of get_location_from_text in their order: the gazetteer,
\* then the geocoder, then the default
Geocoded(text, geocoder, osm_location) ==
  IF osm_location # None
  THEN [location |-> Get(osm_location),
        geocoded |-> <<[text |-> text, geocoder |-> geocoder]>>]
  ELSE [location |-> DefaultLocation,
        geocoded |-> <<[text |-> text, geocoder |-> geocoder]>>]

\* get_location_from_text asking the geocoder first and the gazetteer only when
\* the geocoder gave nothing
ResolvedGeocoderFirst(text, tanzania_location, available, geocoder) ==
  IF geocode_location(text, available, geocoder) = None /\ tanzania_location # None
  THEN [location |-> Get(tanzania_location),
        geocoded |-> <<[text |-> text, geocoder |-> geocoder]>>]
  ELSE Geocoded(text, geocoder, geocode_location(text, available, geocoder))

Resolved(text, tanzania_location, available, geocoder) ==
  IF tanzania_location # None
  THEN [location |-> Get(tanzania_location), geocoded |-> <<>>]
  ELSE Geocoded(text, geocoder, geocode_location(text, available, geocoder))

\* get_location_from_text: [location, geocoded], where geocoded lists the
\* geocode_location calls made: the text and what the geocoder did
get_location_from_text(text, available, geocoder) ==
  Resolved(text, TanzaniaLocations_get_location_from_text(text), available,
           geocoder)

\* The service at index i of SERVICE_KEYWORDS, or the text as it is when no
\* keyword matched
ServiceAtOrText(text_lower, i) ==
  IF i # 0 THEN SERVICE_KEYWORDS[i].service
  ELSE text_lower

\* The service at index i of SERVICE_KEYWORDS, or the fallback
\* text_lower.replace(" ", "_") when no keyword matched (i = 0)
ServiceAt(text_lower, i) ==
  IF i # 0 THEN SERVICE_KEYWORDS[i].service
  ELSE ReplaceChar(text_lower, " ", "_")

ServiceOf(text_lower) ==
  ServiceAt(text_lower,
            FirstIndex([i \in DOMAIN SERVICE_KEYWORDS |->
                          WordsIn(text_lower, SERVICE_KEYWORDS[i].keywords)]))

\* get_service_type_from_text
get_service_type_from_text(text) == ServiceOf(Strip(Lower(text)))

---------------------------------------------------------------------------
(* src/main.py: LocationBasedChatbot *)

\* get_budget_category with < in place of <=
get_budget_category_below(price_range) ==
  IF price_range[1] + price_range[2] < 2 * 50 THEN LOW_COST
  ELSE IF price_range[1] + price_range[2] < 2 * 150 THEN MID_RANGE
  ELSE PREMIUM

\* get_budget_category: avg_price = (lo + hi) / 2 compared with 50 and 150
get_budget_category(price_range) ==
  IF price_range[1] + price_range[2] <= 2 * 50 THEN LOW_COST
  ELSE IF price_range[1] + price_range[2] <= 2 * 150 THEN MID_RANGE
  ELSE PREMIUM

\* The overlap test with strict comparisons
BudgetOverlapsStrictly(price_range, budget_range) ==
  price_range[2] > budget_range[1] /\ price_range[1] < budget_range[2]

\* The test of lines 90-93, 109-112 and 121-122: the provider's price range
\* overlaps the budget range
BudgetOverlaps(price_range, budget_range) ==
  price_range[2] >= budget_range[1] /\ price_range[1] <= budget_range[2]

\* The two loops over self.providers_db (lines 82-96 and 101-115)
StaticMatches(providers_db, service_type, user_location, max_distance, budget_range) ==
  LET Keep(p) == /\ p.service_type = service_type
                 /\ ~(DistanceTo(user_location, p.location) > max_distance * 1000)
                 /\ (budget_range # None => BudgetOverlaps(p.price_range, budget_range))
  IN  SelectSeq(providers_db, Keep)

\* search_providers without the budget filter of lines 118-124
BudgetFilterKeepsAll(results, budget_range) == results

\* The budget filter of lines 118-124
BudgetFilter(results, budget_range) ==
  IF budget_range # None
  THEN SelectSeq(results, LAMBDA p : BudgetOverlaps(p.price_range, budget_range))
  ELSE results

\* One step of a sort that is not stable: last goes before the providers of
\* sorted at its own distance
InsertBeforeEqual(sorted, last, key_last, user_location) ==
  SelectSeq(sorted, LAMBDA p : DistanceTo(user_location, p.location) < key_last)
  \o <<last>>
  \o SelectSeq(sorted, LAMBDA p : ~(DistanceTo(user_location, p.location) < key_last))

\* One step of the stable sort: last goes behind every provider of sorted that
\* is not farther than it (key_last is its distance)
InsertByDistance(sorted, last, key_last, user_location) ==
  SelectSeq(sorted, LAMBDA p : DistanceTo(user_location, p.location) <= key_last)
  \o <<last>>
  \o SelectSeq(sorted, LAMBDA p : ~(DistanceTo(user_location, p.location) <= key_last))

\* list.sort(key = distance): a stable sort, ascending
RECURSIVE SortByDistance(_, _)
SortByDistance(results, user_location) ==
  IF results = <<>> THEN <<>>
  ELSE InsertByDistance(SortByDistance(SubSeq(results, 1, Len(results) - 1),
                                       user_location),
                        results[Len(results)],
                        DistanceTo(user_location, results[Len(results)].location),
                        user_location)

\* Lines 73-80: the providers of the map server, none if the call raised
OsmProviders(osm) == IF osm.raised THEN <<>> ELSE osm.providers

\* FilterAndSort without the sort of line 127
FilterUnsorted(found, static, budget_range, user_location) ==
  BudgetFilter(IF found = <<>> THEN static ELSE found, budget_range)

\* Lines 98-127 once both sources are read: the second loop over providers_db
\* runs only if nothing was found, then the budget filter and the sort
FilterAndSort(found, static, budget_range, user_location) ==
  SortByDistance(BudgetFilter(IF found = <<>> THEN static ELSE found,
                              budget_range),
                 user_location)

CollectProviders(osm_providers, static, budget_range, user_location) ==
  FilterAndSort(osm_providers \o static, static, budget_range, user_location)

SearchWithin(service_type, user_location, distance, budget_range, providers_db, available, answers) ==
  CollectProviders(
    OsmProviders(get_service_providers_from_osm(service_type, user_location,
                                                distance, available, answers)),
    StaticMatches(providers_db, service_type, user_location, distance,
                  budget_range),
    budget_range, user_location)

\* search_providers.  max_distance is None (the default) or a number of km;
\* available and answers are the collaborator's part (see
\* get_service_providers_from_osm).
search_providers(service_type, user_location, max_distance, budget_range, providers_db, available, answers) ==
  SearchWithin(service_type, user_location,
               IF max_distance = None THEN max_search_distance_km
               ELSE Get(max_distance),
               budget_range, providers_db, available, answers)

---------------------------------------------------------------------------
(* The dialogue *)

VARIABLES
  state,            \* self.state
  user_location,    \* self.user_location: None or Some(Location)
  selected_service, \* self.selected_service: None or Some(str)
  budget_range,     \* self.budget_range: None or <<lo, hi>>
  search_results,   \* self.search_results
  current_options,  \* self.current_options
  osm_available,    \* osm_integration.OSM_AVAILABLE: the OSM packages import
  user_message,     \* the argument of the last process_message call
  response,         \* what that call returned
  searches,         \* the search_providers calls that call made, in order
  geocoded,         \* the geocode_location calls that call made, in order
  turn,             \* how many calls were made so far, up to TurnCap
  user_sessions,    \* MetaWhatsAppIntegration.user_sessions: sender -> entry
  sender,           \* the WhatsApp sender of the last message, None if the
                    \* message was typed at the console (main.py)
  budget_cat,       \* the last get_budget_category call, None before it
  distance,         \* the last distance_to calls, None before them
  geocode_cache,    \* self.geocode_cache of one OpenStreetMapIntegration
  lookup,           \* the last geocode_location call on it, None before it
  geocoder_did      \* for each text, what the geocoder did or would have done
                    \* in the calls for it

session_vars == <<state, user_location, selected_service, budget_range,
                  search_results, current_options>>
vars == <<state, user_location, selected_service, budget_range, search_results,
          current_options, osm_available, user_message, response, searches,
          geocoded, turn, user_sessions, sender, budget_cat, distance,
          geocode_cache, lookup, geocoder_did>>

\* The chatbot object as a record
Self ==
  [state |-> state, user_location |-> user_location,
   selected_service |-> selected_service, budget_range |-> budget_range,
   search_results |-> search_results, current_options |-> current_options]

\* LocationBasedChatbot.__init__
NewChatbot ==
  [state |-> WELCOME, user_location |-> None, selected_service |-> None,
   budget_range |-> None, search_results |-> <<>>, current_options |-> <<>>]

\* A returned text: which text it is, the value formatted into it, and the
\* providers it shows, each with the number printed beside it (0: no number).
Response(kind, arg, items) == [kind |-> kind, arg |-> arg, items |-> items]
Item(label, provider) == [label |-> label, provider |-> provider]

\* What a handler does: the chatbot after it, the text it returns, and the
\* collaborator calls it made.
Outcome(self, resp, srch, geo) ==
  [self |-> self, response |-> resp, searches |-> srch, geocoded |-> geo]

\* One search_providers call as recorded in searches
SearchCall(max_distance, budget, answers, result) ==
  [max_distance |-> max_distance, budget_range |-> budget, answers |-> answers,
   result |-> result]

\* enumerate(results[from-1 : to], start): the providers at positions from..to
\* numbered start, start + 1, ...
EnumerateTo(results, from, last, start) ==
  [i \in 1..(IF last >= from THEN last - from + 1 ELSE 0) |->
     Item(start + i - 1, results[from + i - 1])]

Enumerate(results, from, to, start) ==
  EnumerateTo(results, from, IF to < Len(results) THEN to ELSE Len(results), start)

\* _handle_welcome without its first line: the state is left as it is
handle_welcome_keeps_state(self) ==
  Outcome(self, Response("welcome", <<>>, <<>>), <<>>, <<>>)

\* _handle_welcome
handle_welcome(self) ==
  Outcome([self EXCEPT !.state = ASK_LOCATION],
          Response("welcome", <<>>, <<>>), <<>>, <<>>)

\* Lines 190-196 of _handle_location_input, found being what
\* get_location_from_text returned
LocationFound(self, found) ==
  Outcome([self EXCEPT !.user_location = Some(found.location),
                       !.state = ASK_SERVICE],
          Response("location_confirm", found.location.name, <<>>),
          <<>>, found.geocoded)

\* _handle_location_input
handle_location_input(self, message, geocoder) ==
  LocationFound(self, get_location_from_text(message, osm_available, geocoder))

\* ServiceSelected without the assignment to self.selected_service
ServiceSelectedStateOnly(self, service) ==
  Outcome([self EXCEPT !.state = ASK_BUDGET],
          Response("budget_prompt", ReplaceChar(service, "_", " "), <<>>),
          <<>>, <<>>)

\* Lines 200-211 of _handle_service_input
ServiceSelected(self, service) ==
  Outcome([self EXCEPT !.selected_service = Some(service),
                       !.state = ASK_BUDGET],
          Response("budget_prompt", ReplaceChar(service, "_", " "), <<>>),
          <<>>, <<>>)

\* _handle_service_input
handle_service_input(self, message) ==
  ServiceSelected(self, get_service_type_from_text(message))

\* Lines 226-231: max_budget = int(numbers[0]) of re.findall(r'\d+', message)
BudgetFromNumbers(numbers) ==
  IF numbers # <<>> THEN <<0, StrToInt(numbers[1])>> ELSE None

\* The budget parsing with the amounts read before the keywords
ParseBudgetAmountFirst(message) ==
  IF FindAllDigits(message) # <<>>
  THEN BudgetFromNumbers(FindAllDigits(message))
  ELSE IF \/ Contains(message, <<"n", "o", " ", "p", "r", "e", "f", "e", "r", "e", "n", "c", "e">>) \/ Contains(message, <<"a", "n", "y">>)
          \/ Contains(message, <<"d", "o", "e", "s", "n", "'", "t", " ", "m", "a", "t", "t", "e", "r">>)
  THEN None
  ELSE IF Contains(message, <<"l", "o", "w">>) \/ Contains(message, <<"u", "n", "d", "e", "r">>)
          \/ Contains(message, <<"c", "h", "e", "a", "p">>)
  THEN <<0, 50>>
  ELSE IF Contains(message, <<"m", "i", "d">>) \/ Contains(message, <<"m", "e", "d", "i", "u", "m">>)
  THEN <<50, 150>>
  ELSE IF Contains(message, <<"p", "r", "e", "m", "i", "u", "m">>) \/ Contains(message, <<"e", "x", "p", "e", "n", "s", "i", "v", "e">>)
  THEN <<150, 1000>>
  ELSE None

\* The budget parsing of _handle_budget_input (lines 215-231)
ParseBudget(message) ==
  IF \/ Contains(message, <<"n", "o", " ", "p", "r", "e", "f", "e", "r", "e", "n", "c", "e">>) \/ Contains(message, <<"a", "n", "y">>)
     \/ Contains(message, <<"d", "o", "e", "s", "n", "'", "t", " ", "m", "a", "t", "t", "e", "r">>)
  THEN None
  ELSE IF Contains(message, <<"l", "o", "w">>) \/ Contains(message, <<"u", "n", "d", "e", "r">>)
          \/ Contains(message, <<"c", "h", "e", "a", "p">>)
  THEN <<0, 50>>
  ELSE IF Contains(message, <<"m", "i", "d">>) \/ Contains(message, <<"m", "e", "d", "i", "u", "m">>)
  THEN <<50, 150>>
  ELSE IF Contains(message, <<"p", "r", "e", "m", "i", "u", "m">>) \/ Contains(message, <<"e", "x", "p", "e", "n", "s", "i", "v", "e">>)
  THEN <<150, 1000>>
  ELSE BudgetFromNumbers(FindAllDigits(message))

\* The first search of _handle_budget_input (lines 234-238)
FirstSearch(self, budget, answers) ==
  search_providers(Get(self.selected_service), Get(self.user_location), None,
                   budget, load_service_providers, osm_available, answers)

\* The broader search of _handle_budget_input (lines 240-246)
BroaderSearch(self, answers) ==
  search_providers(Get(self.selected_service), Get(self.user_location), Some(20),
                   None, load_service_providers, osm_available, answers)

\* Lines 248-275 with the assignment of line 248 behind the return of the
\* no-results text: the state is left as it is when nothing was found
ShowResultsStateAfterReturn(self, budget, results, calls) ==
  Outcome([self EXCEPT !.budget_range = budget,
                       !.search_results = results,
                       !.state = IF results = <<>> THEN self.state
                                 ELSE SHOW_RESULTS],
          IF results = <<>>
          THEN Response("no_results", <<>>, <<>>)
          ELSE Response("results", IntToStr(Len(results)),
                        Enumerate(results, 1, 3, 1)),
          calls, <<>>)

\* Lines 248-275: the state is SHOW_RESULTS and the text is the no-results text
\* or the list of the first three results.  calls are the searches made.
ShowResults(self, budget, results, calls) ==
  Outcome([self EXCEPT !.budget_range = budget,
                       !.search_results = results,
                       !.state = SHOW_RESULTS],
          IF results = <<>>
          THEN Response("no_results", <<>>, <<>>)
          ELSE Response("results", IntToStr(Len(results)),
                        Enumerate(results, 1, 3, 1)),
          calls, <<>>)

\* Lines 240-246: the broader search was made and its result kept
Broadened(self, budget, answers1, first, answers2, second) ==
  ShowResults(self, budget, second,
              <<SearchCall(None, budget, answers1, first),
                SearchCall(Some(20), None, answers2, second)>>)

\* Line 240 without its test: the broader search is always made
AlwaysBroadened(self, budget, answers1, first, answers2) ==
  Broadened(self, budget, answers1, first, answers2,
            BroaderSearch(self, answers2))

\* Line 240: the broader search is made only if the first found nothing
AfterFirstSearch(self, budget, answers1, first, answers2) ==
  IF first = <<>>
  THEN Broadened(self, budget, answers1, first, answers2,
                 BroaderSearch(self, answers2))
  ELSE ShowResults(self, budget, first,
                   <<SearchCall(None, budget, answers1, first)>>)

SearchForBudget(self, budget, answers1, answers2) ==
  AfterFirstSearch(self, budget, answers1, FirstSearch(self, budget, answers1),
                   answers2)

\* _handle_budget_input.  answers1 and answers2 are the map server's part in
\* the first search and in the broader one (made only if the first finds
\* nothing).
handle_budget_input(self, message, answers1, answers2) ==
  SearchForBudget(self, ParseBudget(message), answers1, answers2)

\* _show_detailed_info without line 361, self.state = CONFIRM_CHOICE
show_detailed_info_keeps_state(self, provider) ==
  Outcome(self, Response("detailed_info", <<>>, <<Item(0, provider)>>),
          <<>>, <<>>)

\* _show_detailed_info
show_detailed_info(self, provider) ==
  Outcome([self EXCEPT !.state = CONFIRM_CHOICE],
          Response("detailed_info", <<>>, <<Item(0, provider)>>), <<>>, <<>>)

\* Line 305: the sentence of _show_comparison followed by what
\* _handle_budget_input("any") returned
NeedTwoOptions(shown) ==
  Outcome(shown.self,
          Response(IF shown.response.kind = "no_results"
                   THEN "need_two_options_no_results"
                   ELSE "need_two_options_results",
                   shown.response.arg, shown.response.items),
          shown.searches, <<>>)

\* _show_comparison
show_comparison(self, answers1, answers2) ==
  IF Len(self.search_results) < 2
  THEN NeedTwoOptions(handle_budget_input(self, <<"a", "n", "y">>, answers1, answers2))
  ELSE Outcome(self,
               Response("comparison", <<>>,
                        Enumerate(self.search_results, 1, 3, 1)),
               <<>>, <<>>)

\* Line 334: an entry enumerated as i is printed with the number i - 3
PrintedNumbers(more) ==
  [i \in DOMAIN more |-> Item(more[i].label - 3, more[i].provider)]

\* _show_more_results with the slice [2:6]: the third result is shown again
show_more_results_from_third(self) ==
  IF Len(self.search_results) <= 3
  THEN Outcome(self, Response("no_more_results", <<>>, <<>>), <<>>, <<>>)
  ELSE Outcome(self,
               Response("more_results", <<>>,
                        PrintedNumbers(Enumerate(self.search_results, 3, 6, 4))),
               <<>>, <<>>)

\* _show_more_results: enumerate(self.search_results[3:6], 4)
show_more_results(self) ==
  IF Len(self.search_results) <= 3
  THEN Outcome(self, Response("no_more_results", <<>>, <<>>), <<>>, <<>>)
  ELSE Outcome(self,
               Response("more_results", <<>>,
                        PrintedNumbers(Enumerate(self.search_results, 4, 6, 4))),
               <<>>, <<>>)

\* _reset_conversation without its line for current_options
reset_keeps_options(self) ==
  [self EXCEPT !.state = WELCOME, !.user_location = None,
               !.selected_service = None, !.budget_range = None,
               !.search_results = <<>>]

\* _reset_conversation without its line for search_results
reset_keeps_results(self) ==
  [self EXCEPT !.state = WELCOME, !.user_location = None,
               !.selected_service = None, !.budget_range = None,
               !.current_options = <<>>]

\* _reset_conversation
reset_conversation(self) ==
  [self EXCEPT !.state = WELCOME, !.user_location = None,
               !.selected_service = None, !.budget_range = None,
               !.search_results = <<>>, !.current_options = <<>>]

\* Lines 290-292 with the chosen provider shown and the first result kept as
\* the current option
SelectAtKeepsFirst(self, option_num) ==
  show_detailed_info([self EXCEPT
                        !.current_options = <<self.search_results[1]>>,
                        !.state = GET_MORE_DETAILS],
                     self.search_results[option_num + 1])

\* SelectAt without the assignment to self.current_options
SelectAtKeepsOptions(self, option_num) ==
  show_detailed_info([self EXCEPT !.state = GET_MORE_DETAILS],
                     self.search_results[option_num + 1])

\* Lines 290-292 and 373-375: the provider at option_num (counted from 0)
\* becomes the current option and is shown in detail
SelectAt(self, option_num) ==
  show_detailed_info([self EXCEPT
                        !.current_options = <<self.search_results[option_num + 1]>>,
                        !.state = GET_MORE_DETAILS],
                     self.search_results[option_num + 1])

\* option_num = int(message) - 1
SelectOption(self, message) == SelectAt(self, StrToInt(message) - 1)

\* 0 <= option_num < len(self.search_results)
InRange(self, option_num) ==
  0 <= option_num /\ option_num < Len(self.search_results)

ValidOption(self, message) == InRange(self, StrToInt(message) - 1)

\* A number outside the list answered as the dispatch answers an unknown
\* state (line 181): by starting over
InvalidOptionStartsOver(self) ==
  Outcome([self EXCEPT !.state = ASK_LOCATION, !.user_location = None,
                       !.selected_service = None, !.budget_range = None,
                       !.search_results = <<>>, !.current_options = <<>>],
          Response("welcome", <<>>, <<>>), <<>>, <<>>)

\* Line 294: the answer to a number outside the list
InvalidOption(self) ==
  Outcome(self, Response("invalid_option", <<>>, <<>>), <<>>, <<>>)

\* Lines 288 and 371: int(message) raises ValueError before anything is
\* assigned; the call returns nothing and the chatbot is as before
IntValueError(self) ==
  Outcome(self, Response("ValueError", <<>>, <<>>), <<>>, <<>>)

\* _handle_results_interaction
handle_results_interaction(self, message, answers1, answers2) ==
  IF message \in {<<"c", "o", "m", "p", "a", "r", "e">>, <<"c", "o", "m", "p", "a", "r", "i", "s", "o", "n">>}
  THEN show_comparison([self EXCEPT !.state = COMPARE_OPTIONS], answers1, answers2)
  ELSE IF message = <<"m", "o", "r", "e">>
  THEN show_more_results(self)
  ELSE IF message = <<"n", "e", "w">>
  THEN handle_welcome(reset_conversation(self))
  ELSE IF StrIsDigit(message)
  THEN IF IntRaises(message)
       THEN IntValueError(self)
       ELSE IF ValidOption(self, message)
       THEN SelectOption(self, message)
       ELSE InvalidOption(self)
  ELSE Outcome(self, Response("results_help", <<>>, <<>>), <<>>, <<>>)

\* _handle_comparison without the assignment of line 367: "back" is answered
\* and the state stays COMPARE_OPTIONS
handle_comparison_stays(self, message) ==
  IF message = <<"b", "a", "c", "k">>
  THEN handle_results_interaction(self, <<>>, <<>>, <<>>)
  ELSE IF StrIsDigit(message) /\ IntRaises(message)
  THEN IntValueError(self)
  ELSE IF StrIsDigit(message) /\ ValidOption(self, message)
  THEN SelectOption(self, message)
  ELSE Outcome(self, Response("comparison_help", <<>>, <<>>), <<>>, <<>>)

\* _handle_comparison
handle_comparison(self, message) ==
  IF message = <<"b", "a", "c", "k">>
  THEN handle_results_interaction([self EXCEPT !.state = SHOW_RESULTS], <<>>,
                                  <<>>, <<>>)
  ELSE IF StrIsDigit(message) /\ IntRaises(message)
  THEN IntValueError(self)
  ELSE IF StrIsDigit(message) /\ ValidOption(self, message)
  THEN SelectOption(self, message)
  ELSE Outcome(self, Response("comparison_help", <<>>, <<>>), <<>>, <<>>)

\* _handle_more_details with "compare" and "back" also emptying
\* current_options
handle_more_details_drops_option(self, message) ==
  IF message \in {<<"c", "a", "l", "l">>, <<"d", "i", "r", "e", "c", "t", "i", "o", "n", "s">>}
  THEN IF self.current_options = <<>>
       THEN Outcome(self, Response("IndexError", <<>>, <<>>), <<>>, <<>>)
       ELSE Outcome(self,
                    Response(IF message = <<"c", "a", "l", "l">> THEN "calling" ELSE "directions",
                             <<>>, <<Item(0, self.current_options[1])>>),
                    <<>>, <<>>)
  ELSE IF message \in {<<"c", "o", "m", "p", "a", "r", "e">>, <<"b", "a", "c", "k">>}
  THEN handle_results_interaction([self EXCEPT !.state = SHOW_RESULTS,
                                               !.current_options = <<>>],
                                  <<>>, <<>>, <<>>)
  ELSE IF message = <<"n", "e", "w">>
  THEN handle_welcome(reset_conversation(self))
  ELSE Outcome(self, Response("details_help", <<>>, <<>>), <<>>, <<>>)

\* _handle_more_details.  self.current_options[0] raises IndexError on an
\* empty list: the call then returns nothing and the chatbot is as before.
handle_more_details(self, message) ==
  IF message \in {<<"c", "a", "l", "l">>, <<"d", "i", "r", "e", "c", "t", "i", "o", "n", "s">>}
  THEN IF self.current_options = <<>>
       THEN Outcome(self, Response("IndexError", <<>>, <<>>), <<>>, <<>>)
       ELSE Outcome(self,
                    Response(IF message = <<"c", "a", "l", "l">> THEN "calling" ELSE "directions",
                             <<>>, <<Item(0, self.current_options[1])>>),
                    <<>>, <<>>)
  ELSE IF message \in {<<"c", "o", "m", "p", "a", "r", "e">>, <<"b", "a", "c", "k">>}
  THEN handle_results_interaction([self EXCEPT !.state = SHOW_RESULTS], <<>>,
                                  <<>>, <<>>)
  ELSE IF message = <<"n", "e", "w">>
  THEN handle_welcome(reset_conversation(self))
  ELSE Outcome(self, Response("details_help", <<>>, <<>>), <<>>, <<>>)

\* _handle_confirmation
handle_confirmation(self, message) == handle_more_details(self, message)

---------------------------------------------------------------------------
(* process_message, one action for each branch of its dispatch on self.state *)

\* The texts a user sends whatever is asked
CommonTexts == { <<>>, <<"n", "e", "w">>, <<"2">> }

\* The further texts a user sends when asked for a location, a service, a
\* budget, and when results, a comparison or a provider's details are shown
LocationTexts == { <<"M", "a", "s", "a", "k", "i">>, <<"S", "i", "n", "z", "a">> }

ServiceTexts == { <<"r", "e", "s", "t", "a", "u", "r", "a", "n", "t">>, <<"P", "e", "t", " ", "S", "h", "o", "p">> }

BudgetTexts ==
  { <<"n", "o", " ", "p", "r", "e", "f", "e", "r", "e", "n", "c", "e">>, <<"l", "o", "w">>, <<"m", "i", "d">>, <<"p", "r", "e", "m", "i", "u", "m">>, <<"5", "0", "0", "0">>, <<"4", "9", "9", "9">>,
    <<"u", "n", "d", "e", "r", " ", "$", "5", "0">>, <<"u", "p", " ", "t", "o", " ", "$", "1", "0", "0">>, <<"a", "n", "y", " ", "c", "h", "e", "a", "p", " ", "p", "l", "a", "c", "e">>, <<"c", "h", "e", "a", "p", " ", "o", "r", " ", "m", "i", "d", "-", "r", "a", "n", "g", "e">>,
    <<"p", "r", "e", "m", "i", "u", "m", ",", " ", "2", "0", "0">> }

CommandTexts ==
  { <<"C", "o", "m", "p", "a", "r", "e", " ">>, <<"m", "o", "r", "e">>, <<"b", "a", "c", "k">>, <<"c", "a", "l", "l">>, <<"d", "i", "r", "e", "c", "t", "i", "o", "n", "s">>, <<"0">>, <<"9">>,
    <<"²">> }

Inputs ==
  CommonTexts \cup
    CASE state = WELCOME      -> {}
      [] state = ASK_LOCATION -> LocationTexts
      [] state = ASK_SERVICE  -> ServiceTexts
      [] state = ASK_BUDGET   -> BudgetTexts
      [] OTHER                -> CommandTexts

\* message = user_message.lower().strip()
Normalize(text) == Strip(Lower(text))

\* What the map server may do in one search: answer or fail each query.  It is
\* not queried when the OSM packages are missing.
Answers(service) ==
  IF osm_available THEN [1..Len(OsmTags(Get(service))) -> BOOLEAN] ELSE {<<>>}

\* The call returns: the chatbot and the observations are updated.
Return(out, m) ==
  /\ state' = out.self.state
  /\ user_location' = out.self.user_location
  /\ selected_service' = out.self.selected_service
  /\ budget_range' = out.self.budget_range
  /\ search_results' = out.self.search_results
  /\ current_options' = out.self.current_options
  /\ user_message' = m
  /\ response' = out.response
  /\ searches' = out.searches
  /\ geocoded' = out.geocoded
  /\ turn' = IF turn < TurnCap THEN turn + 1 ELSE turn
  /\ UNCHANGED osm_available

\* The map server's part in the broader search: chosen only if that search is
\* made
BroaderAnswers(self, budget, answers1) ==
  IF FirstSearch(self, budget, answers1) # <<>> THEN {answers1}
  ELSE Answers(self.selected_service)

\* _handle_budget_input with the map server's answers chosen
BudgetInput(self, message, m) ==
  \E answers1 \in Answers(self.selected_service) :
    \E answers2 \in BroaderAnswers(self, ParseBudget(message), answers1) :
      Return(handle_budget_input(self, message, answers1, answers2), m)

\* _handle_results_interaction searches only through _show_comparison with
\* fewer than two results
Researches(self, message) ==
  message \in {<<"c", "o", "m", "p", "a", "r", "e">>, <<"c", "o", "m", "p", "a", "r", "i", "s", "o", "n">>} /\ Len(self.search_results) < 2

ResultsInput(self, message, m) ==
  \E answers1 \in (IF Researches(self, message)
                   THEN Answers(self.selected_service) ELSE {<<>>}) :
    \E answers2 \in (IF Researches(self, message)
                     THEN BroaderAnswers(self, None, answers1) ELSE {<<>>}) :
      Return(handle_results_interaction(self, message, answers1, answers2), m)

ProcessWelcome ==
  /\ state = WELCOME
  /\ \E m \in Inputs : Return(handle_welcome(Self), m)
  /\ UNCHANGED <<user_sessions, sender, budget_cat, distance, geocode_cache,
                 lookup, geocoder_did>>

ProcessLocation ==
  /\ state = ASK_LOCATION
  /\ \E m \in Inputs, geocoder \in {"answer", "raise"} :
       Return(handle_location_input(Self, Normalize(m), geocoder), m)
  /\ UNCHANGED <<user_sessions, sender, budget_cat, distance, geocode_cache,
                 lookup, geocoder_did>>

ProcessService ==
  /\ state = ASK_SERVICE
  /\ \E m \in Inputs : Return(handle_service_input(Self, Normalize(m)), m)
  /\ UNCHANGED <<user_sessions, sender, budget_cat, distance, geocode_cache,
                 lookup, geocoder_did>>

ProcessBudget ==
  /\ state = ASK_BUDGET
  /\ \E m \in Inputs : BudgetInput(Self, Normalize(m), m)
  /\ UNCHANGED <<user_sessions, sender, budget_cat, distance, geocode_cache,
                 lookup, geocoder_did>>

ProcessResults ==
  /\ state = SHOW_RESULTS
  /\ \E m \in Inputs : ResultsInput(Self, Normalize(m), m)
  /\ UNCHANGED <<user_sessions, sender, budget_cat, distance, geocode_cache,
                 lookup, geocoder_did>>

ProcessComparison ==
  /\ state = COMPARE_OPTIONS
  /\ \E m \in Inputs : Return(handle_comparison(Self, Normalize(m)), m)
  /\ UNCHANGED <<user_sessions, sender, budget_cat, distance, geocode_cache,
                 lookup, geocoder_did>>

\* Lines 175-179: _handle_confirmation hands the message to
\* _handle_more_details
ProcessDetails ==
  /\ state \in {GET_MORE_DETAILS, CONFIRM_CHOICE}
  /\ \E m \in Inputs :
       Return(IF state = GET_MORE_DETAILS
              THEN handle_more_details(Self, Normalize(m))
              ELSE handle_confirmation(Self, Normalize(m)), m)
  /\ UNCHANGED <<user_sessions, sender, budget_cat, distance, geocode_cache,
                 lookup, geocoder_did>>

Init ==
  /\ state = NewChatbot.state
  /\ user_location = NewChatbot.user_location
  /\ selected_service = NewChatbot.selected_service
  /\ budget_range = NewChatbot.budget_range
  /\ search_results = NewChatbot.search_results
  /\ current_options = NewChatbot.current_options
  /\ osm_available \in BOOLEAN
  /\ user_message = <<>>
  /\ response = Response("none", <<>>, <<>>)
  /\ searches = <<>>
  /\ geocoded = <<>>
  /\ turn = 0
  /\ user_sessions = [s \in {} |-> [state |-> "welcome"]]
  /\ sender = None
  /\ budget_cat = None
  /\ distance = None
  /\ geocode_cache = [t \in {} |-> DefaultLocation]
  /\ lookup = None
  /\ geocoder_did = [t \in {} |-> {}]

Next ==
  \/ ProcessWelcome
  \/ ProcessLocation
  \/ ProcessService
  \/ ProcessBudget
  \/ ProcessResults
  \/ ProcessComparison
  \/ ProcessDetails

Spec == Init /\ [][Next]_vars

---------------------------------------------------------------------------
(* src/ghala_whatsapp.py: MetaWhatsAppIntegration.  Its __init__ builds one
   LocationBasedChatbot (line 45) and an empty user_sessions (line 48), which
   is the state Init describes. *)

\* The WhatsApp numbers that write to the bot
Senders == {"255700000001", "255700000002"}

\* The texts they send, whatever the bot asked last
WebhookTexts ==
  { <<"H", "i">>, <<"M", "a", "s", "a", "k", "i">>, <<"r", "e", "s", "t", "a", "u", "r", "a", "n", "t">>, <<"a", "n", "y">>, <<"1">>, <<"n", "e", "w">> }

\* What the collaborators may do while a message is processed: the geocoder
\* is asked only for a location text, the map server only in a search
GeocoderChoices(self) ==
  IF self.state = ASK_LOCATION THEN {"answer", "raise"} ELSE {"answer"}

Searching(self, message) ==
  self.state = ASK_BUDGET \/ (self.state = SHOW_RESULTS /\ Researches(self, message))

FirstAnswers(self, message) ==
  IF Searching(self, message) THEN Answers(self.selected_service) ELSE {<<>>}

SecondAnswers(self, message, answers1) ==
  IF Searching(self, message)
  THEN BroaderAnswers(self,
                      IF self.state = ASK_BUDGET THEN ParseBudget(message) ELSE None,
                      answers1)
  ELSE {<<>>}

\* LocationBasedChatbot.process_message (main.py, lines 153-181) after its
\* first line: the dispatch on self.state.  message is
\* user_message.lower().strip().
process_message(self, message, geocoder, answers1, answers2) ==
  CASE self.state = WELCOME -> handle_welcome(self)
    [] self.state = ASK_LOCATION -> handle_location_input(self, message, geocoder)
    [] self.state = ASK_SERVICE -> handle_service_input(self, message)
    [] self.state = ASK_BUDGET ->
         handle_budget_input(self, message, answers1, answers2)
    [] self.state = SHOW_RESULTS ->
         handle_results_interaction(self, message, answers1, answers2)
    [] self.state = COMPARE_OPTIONS -> handle_comparison(self, message)
    [] self.state = GET_MORE_DETAILS -> handle_more_details(self, message)
    [] self.state = CONFIRM_CHOICE -> handle_confirmation(self, message)
    [] OTHER -> Outcome([self EXCEPT !.state = ASK_LOCATION],
                        Response("start_over", <<>>, <<>>), <<>>, <<>>)

\* Lines 96-100: the entry made for a sender at first contact (last_activity,
\* a clock value, is left out)
SessionEntry(sessions, sender_id) ==
  [s \in DOMAIN sessions \cup {sender_id} |-> [state |-> "welcome"]]

\* The session a sender's message is processed against: line 109 hands every
\* message to self.chatbot, whoever sent it
SessionOf(sender_id) == Self

\* MetaWhatsAppIntegration._handle_text_message.  Lines 103-106 only send the
\* shared chatbot's current option to the sender; the send fails without
\* raising.
HandleTextMessage ==
  /\ turn < MaxWebhookMessages
  /\ \E sender_id \in Senders :
       /\ user_sessions' = SessionEntry(user_sessions, sender_id)
       /\ sender' = Some(sender_id)
       /\ UNCHANGED <<budget_cat, distance, geocode_cache, lookup, geocoder_did>>
       /\ \E text \in WebhookTexts :
            \E geocoder \in GeocoderChoices(Self) :
              \E answers1 \in FirstAnswers(Self, Normalize(text)) :
                \E answers2 \in SecondAnswers(Self, Normalize(text), answers1) :
                  Return(process_message(Self, Normalize(text), geocoder,
                                         answers1, answers2), text)

WebhookSpec == Init /\ [][HandleTextMessage]_vars

---------------------------------------------------------------------------
(* src/osm_integration.py: the gazetteer called on its own, as
   src/test_tanzania.py does *)

\* The texts looked up: two of these words with a space between them
GazetteerWords ==
  { <<>>, <<"M", "a", "s", "a", "k", "i">>, <<"p", "o", "s", "t", "a">>, <<"d", "a", "r", "e", "s", "s", "a", "l", "a", "a", "m">>, <<"M", "l", "i", "m", "a", "n", "i", " ", "C", "i", "t", "y">>, <<"a", "i", "r", "p", "o", "r", "t">>,
    <<"u", "n", "i", "v", "e", "r", "s", "i", "t", "y">>, <<"S", "i", "n", "z", "a">>, <<"U", "p", "a", "n", "g", "a", " ", "W", "e", "s", "t">>, <<"M", "o", "r", "o", "c", "c", "o", " ", "R", "o", "a", "d">>, <<"n", "e", "a", "r">> }

\* result = TanzaniaLocations.get_location_from_text(location_text)
LookUpLocation ==
  \E first \in GazetteerWords : \E second \in GazetteerWords :
    /\ user_message' = first \o <<" ">> \o second
    /\ user_location' =
         TanzaniaLocations_get_location_from_text(first \o <<" ">> \o second)
    /\ UNCHANGED <<state, selected_service, budget_range, search_results,
                   current_options, osm_available, response, searches,
                   geocoded, turn, user_sessions, sender, budget_cat,
                   distance, geocode_cache, lookup, geocoder_did>>

GazetteerSpec == Init /\ [][LookUpLocation]_vars

---------------------------------------------------------------------------
(* src/main.py, src/data_models.py: get_budget_category and distance_to
   called on their own, as src/test_tanzania.py calls distance_to *)

\* Location.distance_to: Some(its value in metres), None if the call raises
distance_to(self, other) ==
  IF DistanceRaises(self, other) THEN None ELSE Some(DistanceTo(self, other))

\* budget_cat = self.get_budget_category(provider.price_range) for a provider
\* of this price range, and whether the budget filter of search_providers
\* keeps such a provider for this budget
Categorize ==
  \E price_range \in {<<0, 50>>, <<50, 150>>, <<150, 500>>, <<0, 100>>,
                       <<1, 100>>, <<100, 200>>, <<100, 201>>, <<0, 500>>} :
    \E budget \in {<<0, 50>>, <<50, 150>>, <<150, 1000>>} :
      /\ budget_cat' =
           Some([price_range |-> price_range, budget_range |-> budget,
                 category |-> get_budget_category(price_range),
                 kept |-> BudgetFilter(<<[price_range |-> price_range]>>,
                                       budget) # <<>>])
      /\ UNCHANGED <<state, user_location, selected_service, budget_range,
                     search_results, current_options, osm_available,
                     user_message, response, searches, geocoded, turn,
                     user_sessions, sender, distance, geocode_cache, lookup,
                     geocoder_did>>

\* a.distance_to(b), b.distance_to(a) and a.distance_to(a) for two of the
\* coordinates of HaversineMetres
MeasureDistance ==
  \E a \in {Location(k[1], k[2], <<>>, <<>>) : k \in DOMAIN HaversineMetres} :
    \E b \in {Location(k[1], k[2], <<>>, <<>>) : k \in DOMAIN HaversineMetres} :
      /\ distance' = Some([a |-> a, b |-> b, there |-> distance_to(a, b),
                           back |-> distance_to(b, a),
                           same |-> distance_to(a, a)])
      /\ UNCHANGED <<state, user_location, selected_service, budget_range,
                     search_results, current_options, osm_available,
                     user_message, response, searches, geocoded, turn,
                     user_sessions, sender, budget_cat, geocode_cache,
                     lookup, geocoder_did>>

DataModelSpec == Init /\ [][Categorize \/ MeasureDistance]_vars

---------------------------------------------------------------------------
(* src/config.py: the keywords of SERVICE_KEYWORDS as messages of a session
   that was asked for a service *)

\* process_message in ASK_SERVICE with a keyword of the table, sent alone
ProcessKeyword ==
  /\ state = ASK_SERVICE
  /\ \E i \in DOMAIN SERVICE_KEYWORDS :
       \E k \in DOMAIN SERVICE_KEYWORDS[i].keywords :
         Return(handle_service_input(Self,
                                     Normalize(SERVICE_KEYWORDS[i].keywords[k])),
                SERVICE_KEYWORDS[i].keywords[k])
  /\ UNCHANGED <<user_sessions, sender, budget_cat, distance, geocode_cache,
                 lookup, geocoder_did>>

KeywordSpec == Init /\ [][ProcessWelcome \/ ProcessLocation \/ ProcessKeyword]_vars

---------------------------------------------------------------------------
(* src/osm_integration.py: geocode_location called again and again on one
   OpenStreetMapIntegration, whose geocode_cache __init__ leaves empty *)

\* geocode_location looking its text up in the cache in lower case
CachedGeocodeKeyLowered(cache, location_text, available, geocoder) ==
  IF available /\ Lower(location_text) \in DOMAIN cache
  THEN Some(cache[Lower(location_text)])
  ELSE geocode_location(location_text, available, geocoder)

\* geocode_location with the cache it finds: the entry of lines 53-54 if the
\* text is a key, else what the call does without one
CachedGeocode(cache, location_text, available, geocoder) ==
  IF available /\ location_text \in DOMAIN cache
  THEN Some(cache[location_text])
  ELSE geocode_location(location_text, available, geocoder)

\* Lines 53-54 and 74-75: the cache after the call that returned result; a
\* Location that was looked up is stored under the text, nothing else is
CacheAfter(cache, location_text, available, result) ==
  IF available /\ location_text \notin DOMAIN cache /\ result # None
  THEN [t \in DOMAIN cache \cup {location_text} |->
          IF t = location_text THEN Get(result) ELSE cache[t]]
  ELSE cache

\* One geocode_location call.  geocoder is what self.geolocator.geocode does
\* for this text when it is called, and would have done in a call answered
\* from the cache; fresh is what the same call returns on a new
\* OpenStreetMapIntegration.
GeocodeLocation ==
  \E location_text \in {<<"s", "i", "n", "z", "a">>, <<"m", "a", "s", "a", "k", "i">>, <<"S", "i", "n", "z", "a">>, <<"n", "o", "w", "h", "e", "r", "e">>} :
    \E geocoder \in {"answer", "raise"} :
      /\ lookup' =
           Some([text |-> location_text, geocoder |-> geocoder,
                 cached |-> DOMAIN geocode_cache,
                 result |-> CachedGeocode(geocode_cache, location_text,
                                          osm_available, geocoder),
                 fresh |-> geocode_location(location_text, osm_available,
                                            geocoder)])
      /\ geocode_cache' =
           CacheAfter(geocode_cache, location_text, osm_available,
                      CachedGeocode(geocode_cache, location_text,
                                    osm_available, geocoder))
      /\ geocoder_did' =
           [t \in DOMAIN geocoder_did \cup {location_text} |->
              IF t = location_text
              THEN (IF t \in DOMAIN geocoder_did THEN geocoder_did[t] ELSE {})
                     \cup {geocoder}
              ELSE geocoder_did[t]]
      /\ UNCHANGED <<state, user_location, selected_service, budget_range,
                     search_results, current_options, osm_available,
                     user_message, response, searches, geocoded, turn,
                     user_sessions, sender, budget_cat, distance>>

GeocoderSpec == Init /\ [][GeocodeLocation]_vars
---------------------------------------------------------------------------
(* The properties *)

\* The message of the last call as process_message reads it
Message == Normalize(user_message)

\* The radius of a recorded search, in km
RadiusOf(call) ==
  IF call.max_distance = None THEN max_search_distance_km
  ELSE Get(call.max_distance)

\* The distance in metres from the user's location to a coordinate
MetresTo(lat, lon) ==
  HaversineMetres[<<Get(user_location).latitude, Get(user_location).longitude,
                    lat, lon>>]

\* The nodes the map server supplied in a recorded search: those of the
\* queries it answered
SuppliedNodes(call) ==
  IF ~osm_available THEN {}
  ELSE UNION { { OverpassQuery(OsmTags(Get(selected_service))[t],
                               Get(user_location).latitude,
                               Get(user_location).longitude,
                               RadiusOf(call))[k] :
                 k \in 1..Len(OverpassQuery(OsmTags(Get(selected_service))[t],
                                            Get(user_location).latitude,
                                            Get(user_location).longitude,
                                            RadiusOf(call))) } :
               t \in { u \in DOMAIN call.answers : call.answers[u] } }

\* C1: from a new session the first four messages, whatever their text and
\* whatever the geocoder and the map server do, take the state through
\* WELCOME, ASK_LOCATION, ASK_SERVICE, ASK_BUDGET, SHOW_RESULTS, one step for
\* each message; "restaurant" as third message selects the service restaurant
\* and "no preference" as fourth leaves no budget range.
C1_OneStepPerMessage ==
  /\ [](/\ (turn = 0 => state = WELCOME)
        /\ (turn = 1 => state = ASK_LOCATION)
        /\ (turn = 2 => state = ASK_SERVICE)
        /\ (turn = 3 => state = ASK_BUDGET)
        /\ (turn = 4 => state = SHOW_RESULTS))
  /\ [][/\ (turn = 2 /\ Normalize(user_message') = <<"r", "e", "s", "t", "a", "u", "r", "a", "n", "t">>
              => selected_service' = Some(<<"r", "e", "s", "t", "a", "u", "r", "a", "n", "t">>))
        /\ (turn = 3 /\ Normalize(user_message') = <<"n", "o", " ", "p", "r", "e", "f", "e", "r", "e", "n", "c", "e">>
              => /\ state' = SHOW_RESULTS
                 /\ budget_range' = None
                 /\ selected_service' = selected_service)]_vars

\* The scenario "", "Masaki", "restaurant", "no preference" has run and found
\* providers
C1_ScenarioRun ==
  /\ turn = 4
  /\ state = SHOW_RESULTS
  /\ Message = <<"n", "o", " ", "p", "r", "e", "f", "e", "r", "e", "n", "c", "e">>
  /\ selected_service = Some(<<"r", "e", "s", "t", "a", "u", "r", "a", "n", "t">>)
  /\ budget_range = None
  /\ Get(user_location).name = <<"M", "a", "s", "a", "k", "i">>
  /\ response.kind = "results"

\* C2: in SHOW_RESULTS or COMPARE_OPTIONS with n results, a number k with
\* 1 <= k <= n leaves the session in GET_MORE_DETAILS with the k-th result as
\* the only current option.
C2_SelectionEndsInMoreDetails ==
  [][(/\ state \in {SHOW_RESULTS, COMPARE_OPTIONS}
      /\ StrIsDigit(Normalize(user_message'))
      /\ 1 <= StrToInt(Normalize(user_message'))
      /\ StrToInt(Normalize(user_message')) <= Len(search_results))
       => /\ state' = GET_MORE_DETAILS
          /\ current_options' =
               <<search_results[StrToInt(Normalize(user_message'))]>>]_vars

\* C3 as amended: "new" in SHOW_RESULTS, GET_MORE_DETAILS or CONFIRM_CHOICE
\* empties the location, the service, the budget range, the results and the
\* current options, returns the welcome text and leaves the state
\* ASK_LOCATION; in ASK_LOCATION, ASK_SERVICE and ASK_BUDGET "new" is read as
\* the location, the service and the budget asked for; in COMPARE_OPTIONS it
\* changes nothing and the comparison help text is returned.
C3_NewStartsOver ==
  [][Normalize(user_message') = <<"n", "e", "w">> =>
       /\ (state \in {SHOW_RESULTS, GET_MORE_DETAILS, CONFIRM_CHOICE}
             => /\ user_location' = None
                /\ selected_service' = None
                /\ budget_range' = None
                /\ search_results' = <<>>
                /\ current_options' = <<>>
                /\ state' = ASK_LOCATION
                /\ response'.kind = "welcome")
       /\ (state = ASK_LOCATION
             => /\ state' = ASK_SERVICE
                /\ user_location' # None
                /\ response'.kind = "location_confirm")
       /\ (state = ASK_SERVICE
             => /\ state' = ASK_BUDGET
                /\ selected_service' = Some(<<"n", "e", "w">>)
                /\ user_location' = user_location)
       /\ (state = ASK_BUDGET
             => /\ state' = SHOW_RESULTS
                /\ budget_range' = None
                /\ user_location' = user_location
                /\ selected_service' = selected_service)
       /\ (state = COMPARE_OPTIONS
             => /\ UNCHANGED session_vars
                /\ response'.kind = "comparison_help")]_vars

\* "new" was sent after a search and the session started over
C3_StartedOver ==
  /\ turn >= 5
  /\ Message = <<"n", "e", "w">>
  /\ response.kind = "welcome"
  /\ state = ASK_LOCATION
  /\ user_location = None
  /\ search_results = <<>>

\* C3 as stated: "new" in any state other than WELCOME empties the location,
\* the service, the budget range and the results and leaves the state WELCOME.
C3_NewReturnsToWelcome ==
  [][(state # WELCOME /\ Normalize(user_message') = <<"n", "e", "w">>)
       => /\ user_location' = None
          /\ selected_service' = None
          /\ budget_range' = None
          /\ search_results' = <<>>
          /\ state' = WELCOME]_vars

\* C4: in SHOW_RESULTS with n results a number k = 0 or k > n leaves the state
\* and the location, service, budget range, results and current options as
\* they were and returns the invalid-option text.
C4_OutOfRangeRejected ==
  [][(/\ state = SHOW_RESULTS
      /\ StrIsDigit(Normalize(user_message'))
      /\ \/ StrToInt(Normalize(user_message')) = 0
         \/ StrToInt(Normalize(user_message')) > Len(search_results))
       => /\ UNCHANGED session_vars
          /\ response'.kind = "invalid_option"]_vars

\* "9" was answered with the invalid-option text while results were shown
C4_NineRejected ==
  /\ state = SHOW_RESULTS
  /\ Message = <<"9">>
  /\ response.kind = "invalid_option"
  /\ Len(search_results) >= 2

\* C5: every provider a search returns lies within the radius of that search
\* from the user's location, also when the map server supplied nodes beyond it.
C5_WithinRadius ==
  \A i \in DOMAIN searches :
    \A j \in DOMAIN searches[i].result :
      MetresTo(searches[i].result[j].location.latitude,
               searches[i].result[j].location.longitude)
        <= RadiusOf(searches[i]) * 1000

\* A search returned providers although the map server supplied a named node
\* beyond the radius
C5_FartherNodeSupplied ==
  \E i \in DOMAIN searches :
    /\ searches[i].result # <<>>
    /\ \E n \in SuppliedNodes(searches[i]) :
         /\ n.tags.name # None
         /\ MetresTo(n.lat, n.lon) > RadiusOf(searches[i]) * 1000

\* C6: handling a budget message makes one search at the default radius with
\* the budget; if it returns providers they are the results and no other
\* search is made; if it returns none, one more search is made, at 20 km
\* (twice the default) and without budget, and what it returns is the results.
C6_OneBroaderSearch ==
  response.kind \in {"results", "no_results"} =>
    /\ Len(searches) \in {1, 2}
    /\ searches[1].max_distance = None
    /\ searches[1].budget_range = budget_range
    /\ searches[1].result # <<>> =>
         Len(searches) = 1 /\ search_results = searches[1].result
    /\ searches[1].result = <<>> =>
         /\ Len(searches) = 2
         /\ searches[2].max_distance = Some(2 * max_search_distance_km)
         /\ searches[2].max_distance = Some(20)
         /\ searches[2].budget_range = None
         /\ search_results = searches[2].result

\* The first search found nothing and the broader one found providers
C6_BroaderSearchFound ==
  /\ response.kind = "results"
  /\ Len(searches) = 2
  /\ searches[1].result = <<>>
  /\ searches[1].budget_range # None
  /\ search_results # <<>>

\* The position at which the map server's provider was collected: the number
\* that ends its id
SupplyIndex(p) == StrToInt(FindAllDigits(p.id)[Len(FindAllDigits(p.id))])

\* C7: the providers a search returns are in non-decreasing order of distance
\* from the user's location, those at equal distance in the order in which
\* they were supplied.
C7_SortedStable ==
  \A i \in DOMAIN searches :
    \A j, k \in DOMAIN searches[i].result :
      j < k =>
        \/ MetresTo(searches[i].result[j].location.latitude,
                    searches[i].result[j].location.longitude)
             < MetresTo(searches[i].result[k].location.latitude,
                        searches[i].result[k].location.longitude)
        \/ /\ MetresTo(searches[i].result[j].location.latitude,
                       searches[i].result[j].location.longitude)
                = MetresTo(searches[i].result[k].location.latitude,
                           searches[i].result[k].location.longitude)
           /\ SupplyIndex(searches[i].result[j])
                < SupplyIndex(searches[i].result[k])

\* A search returned two providers at equal distance and put a provider
\* supplied later before one supplied earlier
C7_TieAndReordering ==
  \E i \in DOMAIN searches :
    /\ \E j, k \in DOMAIN searches[i].result :
         /\ j < k
         /\ searches[i].result[j].location.latitude
              = searches[i].result[k].location.latitude
         /\ searches[i].result[j].location.longitude
              = searches[i].result[k].location.longitude
    /\ \E j, k \in DOMAIN searches[i].result :
         j < k /\ SupplyIndex(searches[i].result[j])
                    > SupplyIndex(searches[i].result[k])

\* The nodes of a recorded search that are named, within its radius and, if
\* it has a budget (bmin, bmax), priced (pmin, pmax) with pmax >= bmin and
\* pmin <= bmax
KeptNodes(call) ==
  { n \in SuppliedNodes(call) :
      /\ n.tags.name # None
      /\ MetresTo(n.lat, n.lon) <= RadiusOf(call) * 1000
      /\ call.budget_range # None =>
           /\ estimate_price_range(Get(selected_service))[2] >= call.budget_range[1]
           /\ estimate_price_range(Get(selected_service))[1] <= call.budget_range[2] }

\* A provider priced (50, 100)
Priced50To100 ==
  ServiceProvider(<<"s", "t", "a", "t", "i", "c", "_", "1">>, <<"D", "u", "k", "a">>, <<"r", "e", "s", "t", "a", "u", "r", "a", "n", "t">>,
                  Location(-67333, 392833, <<"M", "a", "s", "a", "k", "i">>, <<"M", "a", "s", "a", "k", "i">>),
                  <<50, 100>>, 4, "walking", "+255-XXX-XXXXXX")

\* C8: with a budget (bmin, bmax) a search returns exactly the supplied
\* providers within the radius whose price range (pmin, pmax) has
\* pmax >= bmin and pmin <= bmax, the bounds included: one priced (50, 100) is
\* kept for the budgets (100, 150) and (0, 50); without a budget it returns all
\* the supplied providers within the radius.
C8_BudgetOverlapInclusive ==
  /\ \A i \in DOMAIN searches :
       /\ { searches[i].result[j].name : j \in DOMAIN searches[i].result }
            = { Get(n.tags.name) : n \in KeptNodes(searches[i]) }
       /\ Len(searches[i].result) = Cardinality(KeptNodes(searches[i]))
  /\ BudgetFilter(<<Priced50To100>>, <<100, 150>>) = <<Priced50To100>>
  /\ BudgetFilter(<<Priced50To100>>, <<0, 50>>) = <<Priced50To100>>
  /\ BudgetFilter(<<Priced50To100>>, <<101, 150>>) = <<>>
  /\ BudgetFilter(<<Priced50To100>>, <<0, 49>>) = <<>>
  /\ BudgetFilter(<<Priced50To100>>, None) = <<Priced50To100>>

\* A search with the budget (0, 5000) returned providers priced from 5000
C8_BoundaryKept ==
  \E i \in DOMAIN searches :
    /\ searches[i].budget_range = <<0, 5000>>
    /\ searches[i].result # <<>>
    /\ searches[i].result[1].price_range[1] = 5000

\* The first integer token of a text that has a digit
FirstDigitAt(m) ==
  CHOOSE i \in 1..Len(m) : IsDigit(m[i]) /\ \A j \in 1..(i - 1) : ~IsDigit(m[j])

TokenEnd(m, i) ==
  CHOOSE j \in i..Len(m) :
    /\ \A x \in i..j : IsDigit(m[x])
    /\ j = Len(m) \/ ~IsDigit(m[j + 1])

FirstInteger(m) == StrToInt(SubSeq(m, FirstDigitAt(m), TokenEnd(m, FirstDigitAt(m))))

HasDigit(m) == \E i \in 1..Len(m) : IsDigit(m[i])

NoPreferenceRule(m) ==
  Contains(m, <<"n", "o", " ", "p", "r", "e", "f", "e", "r", "e", "n", "c", "e">>) \/ Contains(m, <<"a", "n", "y">>)
    \/ Contains(m, <<"d", "o", "e", "s", "n", "'", "t", " ", "m", "a", "t", "t", "e", "r">>)
LowRule(m) ==
  Contains(m, <<"l", "o", "w">>) \/ Contains(m, <<"u", "n", "d", "e", "r">>) \/ Contains(m, <<"c", "h", "e", "a", "p">>)
MidRule(m) == Contains(m, <<"m", "i", "d">>) \/ Contains(m, <<"m", "e", "d", "i", "u", "m">>)
HighRule(m) == Contains(m, <<"p", "r", "e", "m", "i", "u", "m">>) \/ Contains(m, <<"e", "x", "p", "e", "n", "s", "i", "v", "e">>)

\* C9: the budget range stored for a budget message is that of the first rule
\* the lowercased message matches: "no preference", "any" or "doesn't matter"
\* give none; "low", "under" or "cheap" give (0, 50); "mid" or "medium" give
\* (50, 150); "premium" or "expensive" give the high band (150, 1000);
\* otherwise the first integer n in the message gives (0, n); otherwise none.
\* "under $50" gives (0, 50).
C9_FirstRuleDecides ==
  response.kind \in {"results", "no_results"} =>
    /\ NoPreferenceRule(Message) => budget_range = None
    /\ ~NoPreferenceRule(Message) /\ LowRule(Message) => budget_range = <<0, 50>>
    /\ ~NoPreferenceRule(Message) /\ ~LowRule(Message) /\ MidRule(Message)
         => budget_range = <<50, 150>>
    /\ ~NoPreferenceRule(Message) /\ ~LowRule(Message) /\ ~MidRule(Message)
         /\ HighRule(Message)
         => budget_range = <<150, 1000>>
    /\ ~NoPreferenceRule(Message) /\ ~LowRule(Message) /\ ~MidRule(Message)
         /\ ~HighRule(Message) /\ HasDigit(Message)
         => budget_range = <<0, FirstInteger(Message)>>
    /\ ~NoPreferenceRule(Message) /\ ~LowRule(Message) /\ ~MidRule(Message)
         /\ ~HighRule(Message) /\ ~HasDigit(Message)
         => budget_range = None
    /\ Message = <<"u", "n", "d", "e", "r", " ", "$", "5", "0">> => budget_range = <<0, 50>>

\* "under $50" was sent as budget
C9_UnderFifty ==
  /\ response.kind \in {"results", "no_results"}
  /\ Message = <<"u", "n", "d", "e", "r", " ", "$", "5", "0">>
  /\ budget_range = <<0, 50>>

\* The geocoder gave no location in the last call: the OSM packages are
\* missing, the geocoder raised, or it holds nothing for the query
GeocoderGaveNothing ==
  \/ ~osm_available
  \/ geocoded[1].geocoder = "raise"
  \/ \A i \in DOMAIN NominatimData :
       NominatimData[i].query # GeocodeQuery(Message)

\* C10: whatever the text and whatever the geocoder does, resolving a location
\* text gives a location; when neither the gazetteer nor the geocoder gives
\* one, it is the default location, the centre of Dar es Salaam.
C10_ResolveTotal ==
  response.kind = "location_confirm" =>
    /\ user_location # None
    /\ Get(user_location).latitude \in Int
    /\ Get(user_location).longitude \in Int
    /\ Get(user_location).name = response.arg
    /\ TanzaniaLocations_get_location_from_text(Message) = None =>
         /\ Len(geocoded) = 1
         /\ GeocoderGaveNothing =>
              /\ Get(user_location).latitude = -67924
              /\ Get(user_location).longitude = 392083
              /\ Get(user_location).name = <<"D", "a", "r", " ", "e", "s", " ", "S", "a", "l", "a", "a", "m">>
              /\ Get(user_location).landmark = <<"C", "e", "n", "t", "r", "a", "l", " ", "B", "u", "s", "i", "n", "e", "s", "s", " ", "D", "i", "s", "t", "r", "i", "c", "t">>

\* The geocoder raised for a text it holds a coordinate for, and the default
\* location was taken
C10_DefaultAfterRaise ==
  /\ response.kind = "location_confirm"
  /\ osm_available
  /\ Message = <<"s", "i", "n", "z", "a">>
  /\ Len(geocoded) = 1
  /\ geocoded[1].geocoder = "raise"
  /\ Get(user_location).latitude = -67924

\* The priority order of get_location_from_text in the last call, gazetteer
\* being what the gazetteer holds for its text
PriorityKept(gazetteer) ==
  /\ Len(geocoded) <= 1
  /\ gazetteer # None => geocoded = <<>> /\ user_location = gazetteer
  /\ gazetteer = None => Len(geocoded) = 1 /\ geocoded[1].text = Message
  /\ user_location = Some(DefaultLocation)
       => gazetteer = None /\ GeocoderGaveNothing

\* C11: resolving a location text asks the geocoder only when the gazetteer
\* holds no entry for the text, and then once; the default location is taken
\* only when neither the gazetteer nor the geocoder gave a location; what the
\* gazetteer gives is the result whatever the geocoder holds for the text.
C11_GazetteerThenGeocoder ==
  response.kind = "location_confirm" =>
    PriorityKept(TanzaniaLocations_get_location_from_text(Message))

\* "masaki" was resolved by the gazetteer although the geocoder holds another
\* coordinate for it
C11_GazetteerNotOverridden ==
  /\ response.kind = "location_confirm"
  /\ osm_available
  /\ Message = <<"m", "a", "s", "a", "k", "i">>
  /\ \E i \in DOMAIN NominatimData :
       /\ NominatimData[i].query = GeocodeQuery(Message)
       /\ NominatimData[i].lat # Get(user_location).latitude
  /\ Get(user_location).latitude = -67333
  /\ geocoded = <<>>

\* The map server raised in a recorded search: it was asked and every query
\* failed
LookupRaised(call) ==
  /\ osm_available
  /\ DOMAIN call.answers # {}
  /\ \A t \in DOMAIN call.answers : ~call.answers[t]

\* C12: a search in which the map server raised, or supplied no node, returns
\* the empty list; the budget message that made the searches is answered all
\* the same: the state is SHOW_RESULTS, and when every search it made ended
\* so, the results are empty and the no-results text is returned.
C12_LookupFailureIsEmpty ==
  response.kind \in {"results", "no_results"} =>
    /\ state = SHOW_RESULTS
    /\ \A i \in DOMAIN searches :
         LookupRaised(searches[i]) \/ SuppliedNodes(searches[i]) = {}
           => searches[i].result = <<>>
    /\ (\A i \in DOMAIN searches :
          LookupRaised(searches[i]) \/ SuppliedNodes(searches[i]) = {})
         => /\ Len(searches) = 2
            /\ search_results = <<>>
            /\ response.kind = "no_results"

\* Restaurants were asked for in Masaki and every query of both searches failed
C12_EveryQueryFailed ==
  /\ response.kind = "no_results"
  /\ state = SHOW_RESULTS
  /\ search_results = <<>>
  /\ selected_service = Some(<<"r", "e", "s", "t", "a", "u", "r", "a", "n", "t">>)
  /\ Get(user_location).name = <<"M", "a", "s", "a", "k", "i">>
  /\ Len(searches) = 2
  /\ LookupRaised(searches[1])
  /\ LookupRaised(searches[2])

\* The answer to the message m sent in SHOW_RESULTS with no results
EmptyListAnswer(m) ==
  /\ response'.kind \in
       {"invalid_option", "no_more_results", "welcome", "results_help",
        "need_two_options_no_results", "need_two_options_results"}
  /\ StrIsDigit(m) => response'.kind = "invalid_option" /\ UNCHANGED session_vars
  /\ m = <<"m", "o", "r", "e">> => response'.kind = "no_more_results" /\ UNCHANGED session_vars
  /\ m = <<"n", "e", "w">> => /\ response'.kind = "welcome"
                 /\ state' = ASK_LOCATION
                 /\ user_location' = None
                 /\ selected_service' = None
                 /\ budget_range' = None
                 /\ search_results' = <<>>

\* C13: when the first search and the broader one both return no provider,
\* the budget message is answered with the no-results text and leaves the
\* state SHOW_RESULTS with no results; every later message in that state is
\* answered with a text: a number with the invalid-option text and "more" with
\* the no-more-results text, the session unchanged, and "new" with the welcome
\* text, the session started over.
C13_NoResultsStillAnswered ==
  /\ [](response.kind \in {"results", "no_results"} =>
         /\ (\A i \in DOMAIN searches : searches[i].result = <<>>)
              => /\ response.kind = "no_results"
                 /\ Len(searches) = 2
                 /\ state = SHOW_RESULTS
                 /\ search_results = <<>>
         /\ response.kind = "no_results" => searches[2].result = <<>>)
  /\ [][(state = SHOW_RESULTS /\ search_results = <<>>)
         => EmptyListAnswer(Normalize(user_message'))]_vars

\* C14: a message of one WhatsApp sender leaves the session of every other
\* sender as it was: the state, the location, the service, the budget range,
\* the results and the current options the other sender's next message is
\* processed against.
C14_SessionsIsolated ==
  [][\A other \in Senders \ {Get(sender')} :
       SessionOf(other)' = SessionOf(other)]_vars

\* The data fields of a chatbot: all its fields but the state
DataFields(self) ==
  [user_location |-> self.user_location,
   selected_service |-> self.selected_service,
   budget_range |-> self.budget_range,
   search_results |-> self.search_results,
   current_options |-> self.current_options]

\* C15: in SHOW_RESULTS, GET_MORE_DETAILS and CONFIRM_CHOICE the message "new"
\* leaves the location, the service, the budget range, the results and the
\* current options as they are in a newly built chatbot (none, none, none,
\* empty, empty) and returns the welcome text.
C15_NewLeavesFreshFields ==
  [][(/\ state \in {SHOW_RESULTS, GET_MORE_DETAILS, CONFIRM_CHOICE}
      /\ Normalize(user_message') = <<"n", "e", "w">>)
       => /\ DataFields(Self)' = DataFields(NewChatbot)
          /\ DataFields(Self)' =
               [user_location |-> None, selected_service |-> None,
                budget_range |-> None, search_results |-> <<>>,
                current_options |-> <<>>]
          /\ response'.kind = "welcome"]_vars

\* "new" was the fifth message or a later one and left the fields of a new
\* chatbot, with the OSM packages present
C15_FreshAfterNew ==
  /\ turn = TurnCap
  /\ osm_available
  /\ Message = <<"n", "e", "w">>
  /\ response.kind = "welcome"
  /\ DataFields(Self) = DataFields(NewChatbot)

\* A message that leads towards a new search: the answer to what is asked,
\* "back" from the comparison, "new" where it is a command
ResetMessage(self) ==
  CASE self.state = WELCOME -> <<"h", "i">>
    [] self.state = ASK_LOCATION -> <<"m", "a", "s", "a", "k", "i">>
    [] self.state = ASK_SERVICE -> <<"r", "e", "s", "t", "a", "u", "r", "a", "n", "t">>
    [] self.state = ASK_BUDGET -> <<"a", "n", "y">>
    [] self.state = COMPARE_OPTIONS -> <<"b", "a", "c", "k">>
    [] OTHER -> <<"n", "e", "w">>

\* Sending ResetMessage at most n times ends, whatever the collaborators do,
\* with "new" answered by the welcome text, the fields as in a new chatbot
\* and the location asked for
RECURSIVE ResetWithin(_, _)
ResetWithin(self, n) ==
  /\ n > 0
  /\ \A geocoder \in GeocoderChoices(self) :
       \A answers1 \in FirstAnswers(self, ResetMessage(self)) :
         \A answers2 \in SecondAnswers(self, ResetMessage(self), answers1) :
           IF ResetMessage(self) = <<"n", "e", "w">>
           THEN /\ process_message(self, ResetMessage(self), geocoder, answers1,
                                   answers2).response.kind = "welcome"
                /\ process_message(self, ResetMessage(self), geocoder, answers1,
                                   answers2).self
                     = [NewChatbot EXCEPT !.state = ASK_LOCATION]
           ELSE ResetWithin(process_message(self, ResetMessage(self), geocoder,
                                            answers1, answers2).self, n - 1)

\* C16: no state is terminal: in every reachable state a next message can be
\* processed, and there are at most five
\* messages after which the location, the service, the budget range and the
\* results are as in a new chatbot and the location is asked for again.
C16_NoTerminalState ==
  /\ ENABLED Next
  /\ ResetWithin(Self, 5)

\* The comparison is shown: "new" is no command there, and two messages,
\* "back" and "new", start a new search
C16_ResetFromComparison ==
  /\ state = COMPARE_OPTIONS
  /\ response.kind = "comparison"
  /\ ~ResetWithin(Self, 1)
  /\ ResetWithin(Self, 2)

\* The commands each handler of a state with results tests for
RecognizedCommands(s) ==
  CASE s = SHOW_RESULTS -> {<<"c", "o", "m", "p", "a", "r", "e">>, <<"c", "o", "m", "p", "a", "r", "i", "s", "o", "n">>, <<"m", "o", "r", "e">>, <<"n", "e", "w">>}
    [] s = COMPARE_OPTIONS -> {<<"b", "a", "c", "k">>}
    [] OTHER -> {<<"c", "a", "l", "l">>, <<"d", "i", "r", "e", "c", "t", "i", "o", "n", "s">>, <<"c", "o", "m", "p", "a", "r", "e">>, <<"b", "a", "c", "k">>, <<"n", "e", "w">>}

\* m is the number of one of the n results
ValidOptionNumber(m, n) ==
  /\ StrIsDigit(m)
  /\ ~IntRaises(m)
  /\ 1 <= StrToInt(m)
  /\ StrToInt(m) <= n

\* C17: in SHOW_RESULTS, COMPARE_OPTIONS, GET_MORE_DETAILS and CONFIRM_CHOICE
\* a message that is no command of the state and no number of a result leaves
\* the state and every other field of the session as they were and is
\* answered with a text that says what can be typed.
C17_InvalidInputReprompts ==
  [][(/\ state \in {SHOW_RESULTS, COMPARE_OPTIONS, GET_MORE_DETAILS, CONFIRM_CHOICE}
      /\ Normalize(user_message') \notin RecognizedCommands(state)
      /\ ~ValidOptionNumber(Normalize(user_message'), Len(search_results)))
       => /\ UNCHANGED session_vars
          /\ response'.kind \in {"results_help", "invalid_option",
                                  "comparison_help", "details_help"}]_vars

\* The gazetteer in its order: the cities, the areas, the landmarks
Gazetteer == MAJOR_CITIES \o DAR_ES_SALAAM_AREAS \o DAR_LANDMARKS

\* The first entry of the gazetteer whose key, or whose key written without
\* spaces, is part of the text; 0 if there is none
FirstContained(text_lower) ==
  FirstIndex([i \in DOMAIN Gazetteer |->
                \/ Contains(text_lower, Gazetteer[i].key)
                \/ Contains(text_lower, RemoveSpaces(Gazetteer[i].key))])

\* The location is that of the entry at index hit, under the entry's name;
\* there is none if hit is 0
IsEntry(location, hit) ==
  IF hit = 0
  THEN location = None
  ELSE /\ location # None
       /\ Get(location).name = Title(Gazetteer[hit].key)
       /\ Get(location).latitude = Gazetteer[hit].lat
       /\ Get(location).longitude = Gazetteer[hit].lon

\* C19: the gazetteer returns an entry only for a text that contains the
\* entry's key or alias, namely the first such entry in the order of the
\* gazetteer, under the entry's name, and returns nothing for a text that
\* contains no key and no alias.
C19_FirstContainedEntry ==
  IsEntry(user_location, FirstContained(Normalize(user_message)))

\* The message m contains a keyword of the i-th service type
HasKeyword(m, i) ==
  \E k \in DOMAIN SERVICE_KEYWORDS[i].keywords :
    Contains(m, SERVICE_KEYWORDS[i].keywords[k])

\* A message in ASK_SERVICE leaves the state ASK_BUDGET; the service is a
\* configured type only if the message contains one of its keywords, and is
\* the given text if the message contains no keyword at all
ServiceStep(m, selected, text) ==
  /\ state' = ASK_BUDGET
  /\ \A i \in DOMAIN SERVICE_KEYWORDS :
       selected = Some(SERVICE_KEYWORDS[i].service) => HasKeyword(m, i)
  /\ (\A i \in DOMAIN SERVICE_KEYWORDS : ~HasKeyword(m, i)) => selected = Some(text)

FirstThree(results) ==
  [i \in 1..(IF Len(results) < 3 THEN Len(results) ELSE 3) |-> Item(i, results[i])]

\* C21: in SHOW_RESULTS "compare" leaves the state COMPARE_OPTIONS and returns
\* the comparison of the first three results (of both if there are two) when
\* there are at least two results; with fewer the state stays SHOW_RESULTS and
\* the text shows the results again.
C21_CompareNeedsTwo ==
  [][(state = SHOW_RESULTS /\ Normalize(user_message') = <<"c", "o", "m", "p", "a", "r", "e">>)
       => /\ response'.items = FirstThree(search_results)
          /\ IF Len(search_results) >= 2
             THEN state' = COMPARE_OPTIONS /\ response'.kind = "comparison"
             ELSE state' = SHOW_RESULTS]_vars

\* The providers a text shows, in the order of the text
ProvidersShown(resp) == [i \in DOMAIN resp.items |-> resp.items[i].provider]

\* The fourth to the sixth provider of a list, as far as it has them
FourthToSixth(results) ==
  SubSeq(results, 4, IF Len(results) < 6 THEN Len(results) ELSE 6)

\* C22: in SHOW_RESULTS "more", each time it is sent, leaves the state and
\* every field of the session as they were; the text shows the fourth to the
\* sixth result when there are more than three results and says that there
\* are no more otherwise.
C22_MoreShowsNextThree ==
  [][(state = SHOW_RESULTS /\ Normalize(user_message') = <<"m", "o", "r", "e">>)
       => /\ UNCHANGED session_vars
          /\ IF Len(search_results) > 3
             THEN /\ response'.kind = "more_results"
                  /\ ProvidersShown(response') = FourthToSixth(search_results)
             ELSE response' = Response("no_more_results", <<>>, <<>>)]_vars

\* "more" was answered with the fourth and the fifth of five results
C22_FourthAndFifthShown ==
  /\ state = SHOW_RESULTS
  /\ Message = <<"m", "o", "r", "e">>
  /\ Len(search_results) = 5
  /\ response.kind = "more_results"
  /\ ProvidersShown(response) = <<search_results[4], search_results[5]>>

\* The message m is one that returns from the state s to the results
ReturnsToResults(s, m) ==
  \/ s = COMPARE_OPTIONS /\ m = <<"b", "a", "c", "k">>
  \/ s \in {GET_MORE_DETAILS, CONFIRM_CHOICE} /\ m \in {<<"c", "o", "m", "p", "a", "r", "e">>, <<"b", "a", "c", "k">>}

\* C23: "back" in COMPARE_OPTIONS, and "compare" and "back" in GET_MORE_DETAILS
\* and CONFIRM_CHOICE, leave the state SHOW_RESULTS and the location, the
\* service, the budget range, the results and the current options as they
\* were.
C23_BackToResults ==
  [][ReturnsToResults(state, Normalize(user_message'))
       => /\ state' = SHOW_RESULTS
          /\ UNCHANGED <<user_location, selected_service, budget_range,
                         search_results, current_options>>]_vars

\* "compare" was sent while a provider's details were shown: in SHOW_RESULTS
\* itself "compare" is never answered with the help text
C23_ComparedFromDetails ==
  /\ state = SHOW_RESULTS
  /\ Message = <<"c", "o", "m", "p", "a", "r", "e">>
  /\ response.kind = "results_help"
  /\ Len(current_options) = 1

\* The states in which one provider's details are shown
DetailStates == {GET_MORE_DETAILS, CONFIRM_CHOICE}

\* The text that answers "call" or "directions" for a provider
ContactText(m, provider) ==
  Response(IF m = <<"c", "a", "l", "l">> THEN "calling" ELSE "directions", <<>>,
           <<Item(0, provider)>>)

\* C24: in GET_MORE_DETAILS and CONFIRM_CHOICE "call" and "directions" leave
\* the state and every field of the session as they were and are answered
\* with the contact or the directions of current_options[0]; that provider
\* is the one most recently selected by number: a detail state is entered
\* only by a number k of the list, which makes the k-th result the one
\* current option, and no step between detail states changes it.
C24_ContactOfSelected ==
  [][/\ (state \notin DetailStates /\ state' \in DetailStates)
          => /\ ValidOptionNumber(Normalize(user_message'), Len(search_results))
             /\ current_options' =
                  <<search_results[StrToInt(Normalize(user_message'))]>>
     /\ (state \in DetailStates /\ state' \in DetailStates)
          => current_options' = current_options
     /\ (state \in DetailStates
           /\ Normalize(user_message') \in {<<"c", "a", "l", "l">>, <<"d", "i", "r", "e", "c", "t", "i", "o", "n", "s">>})
          => /\ UNCHANGED session_vars
             /\ response' = ContactText(Normalize(user_message'),
                                        current_options[1])]_vars

\* The second result was selected and its directions were asked for
C24_DirectionsToSecond ==
  /\ state = CONFIRM_CHOICE
  /\ Message = <<"d", "i", "r", "e", "c", "t", "i", "o", "n", "s">>
  /\ response.kind = "directions"
  /\ Len(search_results) >= 2
  /\ current_options = <<search_results[2]>>
  /\ search_results[2] # search_results[1]
  /\ response.items[1].provider = search_results[2]

\* C25: the category of a price range (min, max) is low_cost when
\* (min + max) / 2 <= 50, mid_range when it is above 50 and at most 150, and
\* premium otherwise, so low_cost for (0, 50), mid_range for (50, 150) and
\* premium for (150, 500); the category decides nothing about what a search
\* keeps: a provider is kept for a budget exactly when its price range
\* overlaps the budget, whatever its category.
C25_CategoryByMean ==
  budget_cat # None =>
    /\ Get(budget_cat).category =
         IF Get(budget_cat).price_range[1] + Get(budget_cat).price_range[2] <= 100
         THEN "low-cost"
         ELSE IF Get(budget_cat).price_range[1] + Get(budget_cat).price_range[2] <= 300
         THEN "mid-range"
         ELSE "premium"
    /\ Get(budget_cat).price_range = <<0, 50>> => Get(budget_cat).category = LOW_COST
    /\ Get(budget_cat).price_range = <<50, 150>> => Get(budget_cat).category = MID_RANGE
    /\ Get(budget_cat).price_range = <<150, 500>> => Get(budget_cat).category = PREMIUM
    /\ Get(budget_cat).kept <=>
         /\ Get(budget_cat).price_range[2] >= Get(budget_cat).budget_range[1]
         /\ Get(budget_cat).price_range[1] <= Get(budget_cat).budget_range[2]

\* The price range (0, 100), of mean 50, was categorized low-cost, and a
\* provider of it is kept for the mid-range budget (50, 150)
C25_MeanAtFifty ==
  /\ budget_cat # None
  /\ Get(budget_cat).price_range = <<0, 100>>
  /\ Get(budget_cat).category = LOW_COST
  /\ Get(budget_cat).budget_range = <<50, 150>>
  /\ Get(budget_cat).kept

\* C26: for all locations a and b, the distance from a to b equals the
\* distance from b to a, the distance from a to a is 0, and the distance from
\* a to b is a number that is at least 0.
C26_DistanceSymmetric ==
  distance # None =>
    /\ Get(distance).there # None
    /\ Get(distance).there = Get(distance).back
    /\ Get(distance).same = Some(0)
    /\ Get(Get(distance).there) >= 0

\* The states in which a result list, a comparison or a provider is on show
ResultStates == {SHOW_RESULTS, COMPARE_OPTIONS, GET_MORE_DETAILS, CONFIRM_CHOICE}

\* C27: in SHOW_RESULTS, COMPARE_OPTIONS, GET_MORE_DETAILS and CONFIRM_CHOICE
\* no message calls the geocoder or the provider search, and no message other
\* than "new" changes the location, the service, the budget range or the
\* results; "compare" with fewer than 2 results is such a message.
C27_ResultStatesFrame ==
  [][(state \in ResultStates)
       => /\ searches' = <<>>
          /\ geocoded' = <<>>
          /\ (Normalize(user_message') # <<"n", "e", "w">>
                => UNCHANGED <<user_location, selected_service, budget_range,
                               search_results>>)]_vars

\* C28: whenever a list of results ("results" after the budget, "more_results"
\* after "more") is the text on show in SHOW_RESULTS, every provider of it
\* has beside it a number k from 1 to the number of results, and the message
\* k selects that provider: it is the k-th of search_results.
C28_NumberSelectsProvider ==
  (state = SHOW_RESULTS /\ response.kind \in {"results", "more_results"}) =>
    \A i \in DOMAIN response.items :
      /\ response.items[i].label \in 1..Len(search_results)
      /\ response.items[i].provider = search_results[response.items[i].label]
      /\ SelectOption(Self, IntToStr(response.items[i].label)).self.current_options
           = <<response.items[i].provider>>

\* C29: the answer to "back" in COMPARE_OPTIONS, and to "compare" and "back"
\* in GET_MORE_DETAILS and CONFIRM_CHOICE, is the list of results again: the
\* text that was returned when SHOW_RESULTS was entered, with the first
\* providers of search_results and their numbers.
C29_ListShownAgain ==
  [][ReturnsToResults(state, Normalize(user_message'))
       => /\ response'.kind = "results"
          /\ response'.items = FirstThree(search_results')]_vars

\* C30: once a message has been processed the state is neither WELCOME nor
\* GET_MORE_DETAILS: the answer to the first message and to "new" leaves
\* ASK_LOCATION, and a provider's details are shown in CONFIRM_CHOICE.
C30_NoWelcomeNoDetailsState ==
  turn > 0 =>
    /\ state \notin {WELCOME, GET_MORE_DETAILS}
    /\ response.kind = "welcome" => state = ASK_LOCATION
    /\ response.kind = "detailed_info" => state = CONFIRM_CHOICE

\* The second of four results or more was selected by its number
C30_SecondOfFourSelected ==
  /\ turn > 0
  /\ user_message = <<"2">>
  /\ response.kind = "detailed_info"
  /\ state = CONFIRM_CHOICE
  /\ Len(search_results) >= 4
  /\ current_options = <<search_results[2]>>

\* C31: while a provider's details are on show (GET_MORE_DETAILS,
\* CONFIRM_CHOICE) current_options holds exactly one provider, which is one
\* of search_results, and no "call" or "directions" has found it empty.
C31_OneSelectedProvider ==
  state \in DetailStates =>
    /\ Len(current_options) = 1
    /\ \E i \in 1..Len(search_results) : search_results[i] = current_options[1]
    /\ response.kind # "IndexError"

\* "call" was answered with the contact of the second result
C31_CalledSecond ==
  /\ state = CONFIRM_CHOICE
  /\ Normalize(user_message) = <<"c", "a", "l", "l">>
  /\ response.kind = "calling"
  /\ Len(search_results) >= 2
  /\ response.items = <<Item(0, search_results[2])>>

\* The states that follow the answer to the location question, and those
\* that follow the answer to the service question
LocatedStates == {ASK_SERVICE, ASK_BUDGET} \cup ResultStates
ServicedStates == {ASK_BUDGET} \cup ResultStates

\* C32: user_location is set in ASK_SERVICE, ASK_BUDGET, SHOW_RESULTS,
\* COMPARE_OPTIONS, GET_MORE_DETAILS and CONFIRM_CHOICE, selected_service is
\* set in ASK_BUDGET and the states after it, and every search_providers call
\* was made in such a state.
C32_LocationAndServiceSet ==
  /\ state \in LocatedStates => user_location # None
  /\ state \in ServicedStates => selected_service # None
  /\ searches # <<>> => user_location # None /\ selected_service # None

\* A search was made for the service that the empty message selects
C32_EmptyServiceSearched ==
  /\ state = SHOW_RESULTS
  /\ selected_service = Some(<<>>)
  /\ user_location # None
  /\ searches # <<>>

\* C33: after a budget message that gave a budget range, budget_range is that
\* range; if the first search, made with it, found providers, the results are
\* those providers and the price range of each overlaps the budget range;
\* otherwise the results are those of the second search, made without a
\* budget, and only then may a provider's price range miss the budget range.
C33_OutsideBudgetOnlyIfBroadened ==
  (searches # <<>> /\ searches[1].budget_range # None) =>
    /\ budget_range = searches[1].budget_range
    /\ IF searches[1].result # <<>>
       THEN /\ Len(searches) = 1
            /\ search_results = searches[1].result
            /\ \A i \in 1..Len(search_results) :
                 /\ search_results[i].price_range[2] >= budget_range[1]
                 /\ search_results[i].price_range[1] <= budget_range[2]
       ELSE /\ Len(searches) = 2
            /\ searches[2].budget_range = None
            /\ search_results = searches[2].result

\* The budget is (0, 50), the first search found nothing, and the results of
\* the second hold a provider whose price range lies above 50
C33_DearerThanBudgetShown ==
  /\ Len(searches) = 2
  /\ searches[1].result = <<>>
  /\ budget_range = <<0, 50>>
  /\ \E i \in 1..Len(search_results) : search_results[i].price_range[1] > 50

\* C34: in every state the session reaches, the providers of search_results
\* stand in non-decreasing order of their distance from user_location, which
\* is set whenever there are results.
C34_ResultsByDistance ==
  search_results # <<>> =>
    /\ user_location # None
    /\ \A i \in 1..Len(search_results) : \A j \in i..Len(search_results) :
         DistanceTo(Get(user_location), search_results[i].location)
           <= DistanceTo(Get(user_location), search_results[j].location)

\* Back from a provider's details to a list of three results or more whose
\* third provider is farther than its first
C34_BackToOrderedList ==
  /\ state = SHOW_RESULTS
  /\ response.kind = "results_help"
  /\ current_options # <<>>
  /\ Len(search_results) >= 3
  /\ DistanceTo(Get(user_location), search_results[1].location)
       < DistanceTo(Get(user_location), search_results[3].location)

\* C35: a keyword that SERVICE_KEYWORDS lists for a service type, sent alone
\* when the service is asked for, makes that type the selected service.
C35_KeywordSelectsItsService ==
  state = ASK_BUDGET =>
    \A i \in DOMAIN SERVICE_KEYWORDS :
      \A k \in DOMAIN SERVICE_KEYWORDS[i].keywords :
        user_message = SERVICE_KEYWORDS[i].keywords[k]
          => selected_service = Some(SERVICE_KEYWORDS[i].service)

\* C36: the budget range that the messages "low", "mid" and "premium" give is
\* the configured band of default_budget_ranges: low_cost, mid_range and
\* premium.
C36_BandsAsConfigured ==
  /\ user_message = <<"l", "o", "w">> => budget_range = default_budget_ranges.low_cost
  /\ user_message = <<"m", "i", "d">> => budget_range = default_budget_ranges.mid_range
  /\ user_message = <<"p", "r", "e", "m", "i", "u", "m">> => budget_range = default_budget_ranges.premium

\* No two providers of the list have the same id
DistinctIds(providers) ==
  \A i \in 1..Len(providers) : \A j \in 1..Len(providers) :
    providers[i].id = providers[j].id => i = j

\* C37: the providers that one search_providers call returned have pairwise
\* distinct ids, and so have the providers of search_results.
C37_IdsDistinct ==
  /\ DistinctIds(search_results)
  /\ \A c \in 1..Len(searches) : DistinctIds(searches[c].result)

\* The broader search returned five providers or more, the last numbered
\* otherwise than the first
C37_FiveFromBroaderSearch ==
  /\ Len(searches) = 2
  /\ Len(searches[2].result) >= 5
  /\ search_results = searches[2].result
  /\ search_results[1].id # search_results[5].id

\* The geocoder did the same for a text every time: it is deterministic
SameEveryTime == \A t \in DOMAIN geocoder_did : Cardinality(geocoder_did[t]) = 1

\* C38: a geocode_location call returns something else than it would without
\* the cache only if its text, exactly, is a key of the cache, and then
\* returns the entry; every key is the text of an earlier call that the
\* geocoder answered, with the Location of that answer; a call that returns
\* nothing leaves no entry for its text; and as long as the geocoder does the
\* same for a text every time, every call returns what it returns without
\* the cache.
C38_CacheChangesNoResult ==
  lookup # None =>
    /\ Get(lookup).result # Get(lookup).fresh => Get(lookup).text \in Get(lookup).cached
    /\ Get(lookup).text \in Get(lookup).cached
         => Get(lookup).result = Some(geocode_cache[Get(lookup).text])
    /\ \A k \in DOMAIN geocode_cache :
         /\ k \in DOMAIN geocoder_did
         /\ "answer" \in geocoder_did[k]
         /\ Some(geocode_cache[k]) = geocode_location(k, osm_available, "answer")
    /\ Get(lookup).result = None => Get(lookup).text \notin DOMAIN geocode_cache
    /\ DOMAIN geocode_cache \in {Get(lookup).cached, Get(lookup).cached \cup {Get(lookup).text}}
    /\ SameEveryTime => Get(lookup).result = Get(lookup).fresh

\* "sinza" was answered from the cache, after a call for "Sinza" and one for
\* "nowhere" had returned nothing, the geocoder doing the same every time
C38_SecondSinzaFromCache ==
  /\ lookup # None
  /\ SameEveryTime
  /\ Get(lookup).text = <<"s", "i", "n", "z", "a">>
  /\ <<"s", "i", "n", "z", "a">> \in Get(lookup).cached
  /\ Get(lookup).result # None
  /\ {<<"S", "i", "n", "z", "a">>, <<"n", "o", "w", "h", "e", "r", "e">>} \subseteq DOMAIN geocoder_did
  /\ DOMAIN geocode_cache = {<<"s", "i", "n", "z", "a">>}

===========================================================================
